---- MODULE Spec2Model ----
(***************************************************************************)
(* Model of inferprompt's prompt-structure optimizer:                      *)
(*   app/core/asp_engine.py          ASPEngine (solve, fallback, efficacy) *)
(*   app/services/prompt_optimizer.py PromptOptimizer (optimize, cache,    *)
(*                                    history write, feedback)             *)
(*   app/services/meta_llm.py        assemble_prompt                       *)
(*                                                                         *)
(* Conventions.                                                            *)
(*  - Efficacy values and weights are floats in the source; they are kept  *)
(*    here as integers in hundredths (0.8 -> 80, 1.0 -> 100).  Scores are  *)
(*    kept in units (100.0 -> 100, 50.0 -> 50).                            *)
(*  - Strings built by join / f-strings are sequences of tokens, the       *)
(*    separators being tokens of their own.                                *)
(*  - Text produced by the external generator is the record of the inputs  *)
(*    it was produced from.                                                *)
(*  - The engine (clingo) is an external collaborator: a call of it may    *)
(*    raise, may report no model, or reports an optimal answer set of      *)
(*    base_program.  Which optimal answer set it reports is unknown, and   *)
(*    it is the same one every time (engine_model, set by the first        *)
(*    report).                                                             *)
(***************************************************************************)
EXTENDS Integers, Sequences, FiniteSets, TLC

(***************************************************************************)
(* Bounds of the model (not program constants).                            *)
(***************************************************************************)
MaxOptimize == 2
MaxFeedback == 1
MaxComponents == 3
MaxInstanceFeedback == 2
MaxRestartUpdates == 4
MaxRequests == 2

None == "None"

(***************************************************************************)
(* app/models/prompt.py: the three enums.                                  *)
(***************************************************************************)
ComponentType == {"instruction", "context", "example", "constraint", "output_format"}
TaskType == {"deduction", "induction", "abduction", "comparison", "counterfactual"}
BehaviorType == {"precision", "creativity", "step_by_step", "conciseness", "error_checking"}

\* Enum definition order (iteration order of ComponentType).
ComponentOrder == <<"instruction", "context", "example", "constraint", "output_format">>

\* Lexicographic order of the enum values, as sorted() compares them.
Alphabetical ==
  <<"abduction", "comparison", "conciseness", "counterfactual", "creativity",
    "deduction", "error_checking", "induction", "precision", "step_by_step">>

Rank(n) == CHOOSE i \in 1..Len(Alphabetical) : Alphabetical[i] = n

(***************************************************************************)
(* Generic list helpers.                                                   *)
(***************************************************************************)
RECURSIVE InsertName(_, _)
InsertName(s, n) ==
  IF s = << >> THEN <<n>>
  ELSE IF Rank(n) < Rank(Head(s)) THEN <<n>> \o s
  ELSE <<Head(s)>> \o InsertName(Tail(s), n)

\* sorted([t.value for t in ...])
RECURSIVE SortNames(_)
SortNames(s) ==
  IF s = << >> THEN << >>
  ELSE InsertName(SortNames(SubSeq(s, 1, Len(s) - 1)), s[Len(s)])

\* sep.join(s), the separator kept as a token
RECURSIVE Join(_, _)
Join(s, sep) ==
  IF Len(s) <= 1 THEN s
  ELSE <<Head(s), sep>> \o Join(Tail(s), sep)

\* stable insertion by position: after every element whose position is <=
RECURSIVE InsertByPosition(_, _)
InsertByPosition(s, c) ==
  IF s = << >> THEN <<c>>
  ELSE IF c.position < Head(s).position THEN <<c>> \o s
  ELSE <<Head(s)>> \o InsertByPosition(Tail(s), c)

\* list.sort(key=lambda x: x.position) / sorted(..., key=lambda x: x.position)
RECURSIVE SortByPosition(_)
SortByPosition(s) ==
  IF s = << >> THEN << >>
  ELSE InsertByPosition(SortByPosition(SubSeq(s, 1, Len(s) - 1)), s[Len(s)])

(***************************************************************************)
(* app/models/prompt.py: PromptComponent, and the three kinds of text a    *)
(* component's content can be.                                             *)
(***************************************************************************)
PromptComponent(t, c, p) == [type |-> t, content |-> c, position |-> p]

\* f"[{comp_type.value.upper()} CONTENT]"
Placeholder(t) == [kind |-> "placeholder", type |-> t, prompt |-> None]

\* meta_llm.generate_component_content(type, task_analysis, user_prompt)
GeneratedContent(t, user_prompt) == [kind |-> "generated", type |-> t, prompt |-> user_prompt]

\* f"Please respond to the following query: {request.user_prompt}"
FallbackContent(user_prompt) == [kind |-> "please_respond", type |-> "instruction", prompt |-> user_prompt]

(***************************************************************************)
(* ASPEngine.__init__: the default efficacy snapshot.                      *)
(***************************************************************************)
DefaultComponentEfficacy ==
  (<<"instruction", "deduction">> :> 80) @@
  (<<"example", "deduction">> :> 90) @@
  (<<"constraint", "precision">> :> 70) @@
  (<<"output_format", "step_by_step">> :> 80) @@
  (<<"instruction", "precision">> :> 70) @@
  (<<"context", "abduction">> :> 75) @@
  (<<"example", "step_by_step">> :> 85)

position_effects ==
  (<<"instruction", 1>> :> 90) @@
  (<<"context", 2>> :> 70) @@
  (<<"example", 3>> :> 80)

weights == [k \in {"position"} \cup TaskType \cup BehaviorType |->
              IF k = "position" THEN 50 ELSE 100]

model_adjustments ==
  ("gpt-4" :> (<<"instruction", "precision">> :> 90)) @@
  ("claude" :> (<<"example", "precision">> :> 85)) @@
  ("llama" :> (<<"constraint", "precision">> :> 75))

domain_adjustments ==
  ("legal" :> (<<"context", "precision">> :> 95)) @@
  ("medical" :> (<<"constraint", "step_by_step">> :> 90)) @@
  ("code" :> (<<"example", "precision">> :> 85))

(***************************************************************************)
(* ASPEngine.generate_asp_facts (142-192).  The text it returns is modelled *)
(* statement by statement: a statement is a predicate name, its argument   *)
(* terms as the f-string prints them, and the text that closes it.  The    *)
(* f-strings end with ")" and the statements are joined with "\n" (192):   *)
(* no statement carries the "." that ends an ASP fact.  Every efficacy,    *)
(* effect and weight is a Python float and is printed as one (0.8, 1.0);   *)
(* values are kept in hundredths.  The statements of a loop over a dict    *)
(* are kept as a set, those of a loop over a tuple as a sequence.          *)
(***************************************************************************)
AspName(s) == [kind |-> "name", text |-> s, value |-> 0]

AspInt(n) == [kind |-> "int", text |-> "", value |-> n]

AspFloat(hundredths) == [kind |-> "float", text |-> "", value |-> hundredths]

\* f"pred(args)": the statement ends with ")"
Statement(pred, args) == [pred |-> pred, args |-> args, last_char |-> ")"]

\* lines 155-156
TargetTaskFacts(tasks_tuple) ==
  [i \in 1..Len(tasks_tuple) |-> Statement("target_task", <<AspName(tasks_tuple[i])>>)]

\* lines 158-159
TargetBehaviorFacts(behaviors_tuple) ==
  [i \in 1..Len(behaviors_tuple) |->
     Statement("target_behavior", <<AspName(behaviors_tuple[i])>>)]

\* lines 162-167
ComponentEfficacyFacts(efficacy) ==
  {Statement("component_efficacy",
             <<AspName(k[1]), AspName(k[2]), AspFloat(efficacy[k])>>) :
     k \in DOMAIN efficacy}

\* lines 170-171
PositionEffectFacts ==
  {Statement("position_effect",
             <<AspName(k[1]), AspInt(k[2]), AspFloat(position_effects[k])>>) :
     k \in DOMAIN position_effects}

\* lines 174-178
WeightFacts ==
  {Statement("weight", <<AspName(k), AspFloat(weights[k])>>) : k \in DOMAIN weights}

\* lines 181-184 with the guard dropped: facts for whatever model is named
ModelFacts_unguarded(target_model) ==
  [target_model |-> <<Statement("target_model", <<AspName(target_model)>>)>>,
   model_specific_efficacy |->
     IF target_model \in DOMAIN model_adjustments
     THEN {Statement("model_specific_efficacy",
                     <<AspName(target_model), AspName(k[1]), AspName(k[2]),
                       AspFloat(model_adjustments[target_model][k])>>) :
             k \in DOMAIN model_adjustments[target_model]}
     ELSE {}]

\* lines 181-184: if target_model and target_model in self.model_adjustments
ModelFacts(target_model) ==
  IF target_model # None /\ target_model # "" /\ target_model \in DOMAIN model_adjustments
  THEN [target_model |-> <<Statement("target_model", <<AspName(target_model)>>)>>,
        model_specific_efficacy |->
          {Statement("model_specific_efficacy",
                     <<AspName(target_model), AspName(k[1]), AspName(k[2]),
                       AspFloat(model_adjustments[target_model][k])>>) :
             k \in DOMAIN model_adjustments[target_model]}]
  ELSE [target_model |-> << >>, model_specific_efficacy |-> {}]

\* lines 187-190: if domain and domain in self.domain_adjustments
DomainFacts(domain) ==
  IF domain # None /\ domain # "" /\ domain \in DOMAIN domain_adjustments
  THEN [target_domain |-> <<Statement("target_domain", <<AspName(domain)>>)>>,
        domain_efficacy |->
          {Statement("domain_efficacy",
                     <<AspName(domain), AspName(k[1]), AspName(k[2]),
                       AspFloat(domain_adjustments[domain][k])>>) :
             k \in DOMAIN domain_adjustments[domain]}]
  ELSE [target_domain |-> << >>, domain_efficacy |-> {}]

\* the facts string, section by section in the order of the appends,
\* joined by "\n" (192)
generate_asp_facts(efficacy, tasks_tuple, behaviors_tuple, target_model, domain) ==
  [target_task |-> TargetTaskFacts(tasks_tuple),
   target_behavior |-> TargetBehaviorFacts(behaviors_tuple),
   component_efficacy |-> ComponentEfficacyFacts(efficacy),
   position_effect |-> PositionEffectFacts,
   weight |-> WeightFacts,
   target_model |-> ModelFacts(target_model).target_model,
   model_specific_efficacy |-> ModelFacts(target_model).model_specific_efficacy,
   target_domain |-> DomainFacts(domain).target_domain,
   domain_efficacy |-> DomainFacts(domain).domain_efficacy,
   joined_by |-> "\n"]

\* no call of generate_asp_facts
NoFacts == [joined_by |-> None]

(***************************************************************************)
(* functools.lru_cache on generate_asp_facts (142): one memo for the       *)
(* class, keyed by (self, tasks_tuple, behaviors_tuple, target_model,      *)
(* domain).  It is kept per engine as a function from the argument tuple   *)
(* to the memoized string; cache_clear() empties it for every engine.      *)
(* The 32-entry limit is not reached with the argument tuples used here.   *)
(***************************************************************************)
NoMemo == << >>

\* the call through the memo: the string returned and the memo afterwards
memoized_facts(memo, efficacy, tasks_tuple, behaviors_tuple, target_model, domain) ==
  LET args == <<tasks_tuple, behaviors_tuple, target_model, domain>>
  IN  IF args \in DOMAIN memo
      THEN [facts |-> memo[args], memo |-> memo]
      ELSE [facts |-> generate_asp_facts(efficacy, tasks_tuple, behaviors_tuple,
                                         target_model, domain),
            memo |-> (args :> generate_asp_facts(efficacy, tasks_tuple,
                                                  behaviors_tuple, target_model,
                                                  domain)) @@ memo]

(***************************************************************************)
(* ASPEngine.base_program, rule by rule.  A candidate is the set of        *)
(* prompt_position atoms, written as a function component -> position with *)
(* 0 for "no atom of this component".                                      *)
(***************************************************************************)
Positions == 1..5

Candidates == [ComponentType -> {0} \cup Positions]

\* 1 { prompt_position(C, P) : P = 1..5 } 1 :- component(C).
ChoiceRule(a) == \A c \in ComponentType : a[c] \in Positions

\* mutant: the integrity constraint on shared positions left out
NoSharedPosition_off(a) == TRUE

\* :- prompt_position(C1, P), prompt_position(C2, P), C1 != C2.
NoSharedPosition(a) ==
  \A c1, c2 \in ComponentType : (c1 # c2 /\ a[c1] # 0) => a[c1] # a[c2]

\* :- prompt_position(example, _), not prompt_position(instruction, _).
ExampleRequiresInstruction(a) == ~(a["example"] # 0 /\ a["instruction"] = 0)

\* :- prompt_position(constraint, _), not prompt_position(instruction, _).
ConstraintRequiresInstruction(a) == ~(a["constraint"] # 0 /\ a["instruction"] = 0)

AnswerSets ==
  {a \in Candidates : /\ ChoiceRule(a)
                      /\ NoSharedPosition(a)
                      /\ ExampleRequiresInstruction(a)
                      /\ ConstraintRequiresInstruction(a)}

instruction_first(a) == a["instruction"] = 1

example_after_instruction(a) ==
  /\ a["instruction"] # 0
  /\ a["example"] # 0
  /\ a["instruction"] < a["example"]

\* mutant: every answer set gets the top score
effectiveness_flat(a) == 100

\* effectiveness(100) :- instruction_first, example_after_instruction.  etc.
effectiveness(a) ==
  IF instruction_first(a) /\ example_after_instruction(a) THEN 100
  ELSE IF instruction_first(a) THEN 80
  ELSE IF example_after_instruction(a) THEN 60
  ELSE 40

\* #maximize { S : effectiveness(S) }.  with --opt-mode=opt: the last model
\* reported to on_model is an optimal one.
OptimalModels ==
  {a \in AnswerSets : \A b \in AnswerSets : effectiveness(b) <= effectiveness(a)}

\* no model reported yet
NoModel == [c \in ComponentType |-> 0]

\* what one run of Control(...).add / ground / solve can do
EngineOutcomes == {"raise", "nomodel", "model"}

(***************************************************************************)
(* ASPEngine._fallback_solve                                               *)
(***************************************************************************)
\* mutant: context and example change places in the default structure
hardcoded_structure_swapped ==
  << <<"instruction", 1>>, <<"example", 2>>, <<"context", 3>>,
     <<"constraint", 4>>, <<"output_format", 5>> >>

hardcoded_structure ==
  << <<"instruction", 1>>, <<"context", 2>>, <<"example", 3>>,
     <<"constraint", 4>>, <<"output_format", 5>> >>

FallbackScore == 100

fallback_solve ==
  [components |-> [i \in 1..Len(hardcoded_structure) |->
                     PromptComponent(hardcoded_structure[i][1],
                                     Placeholder(hardcoded_structure[i][1]),
                                     hardcoded_structure[i][2])],
   effectiveness_score |-> FallbackScore]

(***************************************************************************)
(* ASPEngine.solve.  outcome is what the engine did with the program,      *)
(* best_model the model it reported last (models[-1]).                     *)
(***************************************************************************)
\* mutant: the loop over best_model skips the first prompt_position atom
ExtractComponents_skip_first(best_model) ==
  LET present == Tail(SelectSeq(ComponentOrder, LAMBDA c : best_model[c] # 0))
  IN  [i \in 1..Len(present) |->
         PromptComponent(present[i], Placeholder(present[i]), best_model[present[i]])]

\* the loop over best_model: one component per prompt_position atom
ExtractComponents(best_model) ==
  LET present == SelectSeq(ComponentOrder, LAMBDA c : best_model[c] # 0)
  IN  [i \in 1..Len(present) |->
         PromptComponent(present[i], Placeholder(present[i]), best_model[present[i]])]

\* mutant: solve without components.sort(key=lambda x: x.position)
solve_unsorted(target_tasks, target_behaviors, target_model, domain, outcome, best_model) ==
  IF outcome = "raise" THEN fallback_solve
  ELSE IF outcome = "nomodel" THEN fallback_solve
  ELSE [components |-> ExtractComponents(best_model),
        effectiveness_score |-> effectiveness(best_model)]

solve(target_tasks, target_behaviors, target_model, domain, outcome, best_model) ==
  IF outcome = "raise" THEN fallback_solve           \* except Exception
  ELSE IF outcome = "nomodel" THEN fallback_solve    \* if not models
  ELSE [components |-> SortByPosition(ExtractComponents(best_model)),
        effectiveness_score |-> effectiveness(best_model)]

(***************************************************************************)
(* Inputs of the model: the requests, the analyzer's answers, and the      *)
(* failures the external collaborators can produce.                        *)
(***************************************************************************)
Prompts == {"p1", "p2"}
TaskLists == {<< >>, <<"deduction", "abduction">>}
BehaviorLists == {<<"precision">>}
Models == {"gpt-4"}
Domains == {None}

\* OptimizationRequest
Requests ==
  [user_prompt : Prompts, target_tasks : TaskLists, target_behaviors : BehaviorLists,
   target_model : Models, domain : Domains]

\* MetaLLMAnalyzer.analyze_task: the dictionary it returns (mock answer)
Analyses ==
  {[detected_tasks |-> <<"deduction">>,
    detected_behaviors |-> <<"precision", "step_by_step">>,
    domain_hint |-> None]}

\* the step of optimize at which a collaborator raises ("none": no step
\* raises); for "content" the index of the component whose generation raises
ContentFaultAt == {3}

Faults ==
  {[step |-> s, index |-> 0] : s \in {"none", "analyze", "resolve", "assemble", "rationale"}}
  \cup {[step |-> "content", index |-> i] : i \in ContentFaultAt}

NoFault == [step |-> "none", index |-> 0]

\* the step of _save_to_db that raises, and whether the rollback / close that
\* follow raise as well (a raising rollback or close after a failed step is
\* drawn for the failed commit only: the other steps fail the same way).
\* "read_id" is the read of db_prompt.id after the commit (156): the commit
\* has expired the object (the sessionmaker of database.py 12 keeps
\* expire_on_commit), so the read goes to the database and can raise.
SaveFaults ==
  {[at |-> "none", rollback_raises |-> FALSE, close_raises |-> c] : c \in BOOLEAN}
  \cup {[at |-> "open", rollback_raises |-> FALSE, close_raises |-> FALSE]}
  \cup {[at |-> a, rollback_raises |-> FALSE, close_raises |-> FALSE] :
          a \in {"add", "flush", "add_component", "commit", "read_id"}}
  \cup {[at |-> "commit", rollback_raises |-> r, close_raises |-> c] :
          r \in BOOLEAN, c \in BOOLEAN}

NoSaveFault == [at |-> "none", rollback_raises |-> FALSE, close_raises |-> FALSE]

\* provide_feedback inputs
FeedbackInputs ==
  {<<"instruction", "precision", 95>>}

(***************************************************************************)
(* State.                                                                  *)
(***************************************************************************)
VARIABLES
  optimal_models,      \* self.base_program, as the set of its optimal answer sets
  engine_model,        \* the optimal answer set the engine reports
  component_efficacy,  \* ASPEngine.component_efficacy
  efficacy_db,         \* rows of ComponentEfficacyDB
  optimization_cache,  \* module-level dict, in insertion order
  history,             \* committed rows of OptimizedPromptDB (+ components)
  last,                \* the last call: its inputs, its path, what it returned
  served,              \* per cached key, what the latest successful optimize
                       \* call of that key returned (record of the run)
  calls,               \* number of optimize calls so far
  feedbacks,           \* number of provide_feedback calls so far
  threads,             \* per thread of the service: where it is in its call
  engines              \* per ASPEngine instance: its component_efficacy

vars == <<optimal_models, engine_model, component_efficacy, efficacy_db, optimization_cache,
          history, last, served, calls, feedbacks, threads, engines>>

OPTIMIZATION_CACHE_SIZE == 32

(***************************************************************************)
(* The Result Cache: a dict key -> (components, effectiveness_score).      *)
(***************************************************************************)
CacheKeys(cache) == {cache[i].key : i \in 1..Len(cache)}

CacheGet(cache, key) == cache[CHOOSE i \in 1..Len(cache) : cache[i].key = key]

\* optimization_cache[key] = (components, score): a present key keeps its
\* place in the iteration order, a new key goes last
CachePut(cache, key, components, score) ==
  LET e == [key |-> key, components |-> components, effectiveness_score |-> score]
  IN  IF key \in CacheKeys(cache)
      THEN [i \in 1..Len(cache) |-> IF cache[i].key = key THEN e ELSE cache[i]]
      ELSE Append(cache, e)

\* mutant: the oldest entry is not removed
CacheEvict_none(cache) == cache

\* mutant: the entry inserted last is removed
CacheEvict_newest(cache) == SubSeq(cache, 1, Len(cache) - 1)

\* optimization_cache.pop(next(iter(optimization_cache)))
CacheEvict(cache) == Tail(cache)

(***************************************************************************)
(* PromptOptimizer._generate_cache_key                                     *)
(***************************************************************************)
\* sep.join(names) as text
RECURSIVE JoinText(_, _)
JoinText(names, sep) ==
  IF names = << >> THEN ""
  ELSE IF Len(names) = 1 THEN names[1]
  ELSE names[1] \o sep \o JoinText(Tail(names), sep)

\* mutant: the names are joined in the order the caller gave them
generate_cache_key_unsorted(target_tasks, target_behaviors, target_model, domain) ==
  JoinText(target_tasks, ",") \o "|" \o JoinText(target_behaviors, ",") \o "|"
  \o target_model \o "|" \o (IF domain = None \/ domain = "" THEN "none" ELSE domain)

\* f"{tasks_str}|{behaviors_str}|{target_model}|{domain or 'none'}" (112-114):
\* the key is one string
generate_cache_key(target_tasks, target_behaviors, target_model, domain) ==
  LET tasks_str == JoinText(SortNames(target_tasks), ",")
      behaviors_str == JoinText(SortNames(target_behaviors), ",")
  IN  tasks_str \o "|" \o behaviors_str \o "|" \o target_model \o "|"
      \o (IF domain = None \/ domain = "" THEN "none" ELSE domain)

(***************************************************************************)
(* MetaLLMAnalyzer.assemble_prompt and generate_rationale                  *)
(***************************************************************************)
\* mutant: the contents are joined in the order of the given list
assemble_prompt_unsorted(components) ==
  Join([i \in 1..Len(components) |-> components[i].content],
       [kind |-> "\n\n", type |-> None, prompt |-> None])

assemble_prompt(components) ==
  LET sorted_components == SortByPosition(components)
  IN  Join([i \in 1..Len(sorted_components) |-> sorted_components[i].content],
           [kind |-> "\n\n", type |-> None, prompt |-> None])

generate_rationale(components, effectiveness_score) ==
  [kind |-> "rationale",
   ordering |-> [i \in 1..Len(components) |-> components[i].type],
   score |-> effectiveness_score]

(***************************************************************************)
(* PromptOptimizer.optimize, step 2: cache lookup or solve.                *)
(* aliased: the list just stored in the cache is the very list optimize    *)
(* goes on to work with (line 59 stores the reference).                    *)
(***************************************************************************)
\* mutant: the cache is written but never consulted
ResolveStructure_always_solve(cache, key, target_tasks, target_behaviors, target_model, domain, outcome, best_model) ==
  LET s == solve(target_tasks, target_behaviors, target_model, domain,
                 outcome, best_model)
      room == IF Len(cache) >= OPTIMIZATION_CACHE_SIZE
              THEN CacheEvict(cache) ELSE cache
  IN  [components |-> s.components,
       effectiveness_score |-> s.effectiveness_score,
       cache |-> CachePut(room, key, s.components, s.effectiveness_score),
       path |-> "miss", aliased |-> TRUE]

ResolveStructure(cache, key, target_tasks, target_behaviors, target_model, domain, outcome, best_model) ==
  IF key \in CacheKeys(cache)
  THEN \* the comprehension builds new PromptComponent objects
       [components |-> [i \in 1..Len(CacheGet(cache, key).components) |->
                          PromptComponent(CacheGet(cache, key).components[i].type,
                                          CacheGet(cache, key).components[i].content,
                                          CacheGet(cache, key).components[i].position)],
        effectiveness_score |-> CacheGet(cache, key).effectiveness_score,
        cache |-> cache, path |-> "hit", aliased |-> FALSE]
  ELSE LET s == solve(target_tasks, target_behaviors, target_model, domain,
                      outcome, best_model)
           room == IF Len(cache) >= OPTIMIZATION_CACHE_SIZE
                   THEN CacheEvict(cache) ELSE cache
       IN  [components |-> s.components,
            effectiveness_score |-> s.effectiveness_score,
            cache |-> CachePut(room, key, s.components, s.effectiveness_score),
            path |-> "miss", aliased |-> TRUE]

(***************************************************************************)
(* Step 3: the loop that sets component.content in place; the generator    *)
(* raises at component number raise_at (0: it does not raise).             *)
(***************************************************************************)
FillContent(components, raise_at, user_prompt) ==
  [i \in 1..Len(components) |->
     IF raise_at = 0 \/ i < raise_at
     THEN [components[i] EXCEPT !.content = GeneratedContent(components[i].type, user_prompt)]
     ELSE components[i]]

\* the cache after step 3: the in-place writes reach the cached entry when
\* the working list is the cached list
CacheAfterFill(r, key, filled) ==
  IF r.aliased THEN CachePut(r.cache, key, filled, r.effectiveness_score)
  ELSE r.cache

(***************************************************************************)
(* PromptOptimizer._save_to_db.  SessionLocal() is called before the try;  *)
(* add / flush / the component adds / commit are inside it; the except     *)
(* clause calls rollback and returns None; the finally clause calls close. *)
(* raised: an exception leaves _save_to_db.                                *)
(***************************************************************************)
HistoryRow(hist, user_prompt, optimized_prompt, components, target_model, effectiveness_score, rationale) ==
  [id |-> Len(hist) + 1,
   user_prompt |-> user_prompt,
   optimized_prompt |-> optimized_prompt,
   target_model |-> target_model,
   effectiveness_score |-> effectiveness_score,
   rationale |-> rationale,
   components |-> [i \in 1..Len(components) |->
                     [component_type |-> components[i].type,
                      content |-> components[i].content,
                      position |-> components[i].position]]]

\* _save_to_db (116-163).  The session is opened outside the try (128); the
\* records are added and committed in one transaction (129-155); the id is
\* read after the commit (156); the except clause rolls back and returns
\* None (158-161); finally closes the session (162-163).  A raising
\* SessionLocal(), rollback or close leaves the function by the exception.
save_to_db(hist, user_prompt, optimized_prompt, components, target_model, effectiveness_score, rationale, save_fault) ==
  IF save_fault.at = "open"
  THEN [raised |-> TRUE, prompt_id |-> None, has_id |-> FALSE, closed |-> FALSE,
        history |-> hist]
  ELSE IF save_fault.at = "none"
  THEN [raised |-> save_fault.close_raises,
        prompt_id |-> IF save_fault.close_raises THEN None ELSE Len(hist) + 1,
        has_id |-> ~save_fault.close_raises,
        closed |-> ~save_fault.close_raises,
        history |-> Append(hist, HistoryRow(hist, user_prompt, optimized_prompt,
                                             components, target_model,
                                             effectiveness_score, rationale))]
  ELSE [raised |-> save_fault.rollback_raises \/ save_fault.close_raises,
        prompt_id |-> None, has_id |-> FALSE,
        closed |-> ~save_fault.close_raises,
        history |-> IF save_fault.at = "read_id"
                    THEN Append(hist, HistoryRow(hist, user_prompt, optimized_prompt,
                                                 components, target_model,
                                                 effectiveness_score, rationale))
                    ELSE hist]

(***************************************************************************)
(* PromptOptimizer.optimize                                                *)
(***************************************************************************)
OptimizedPrompt(components, full_prompt, rationale, effectiveness_score) ==
  [components |-> components, full_prompt |-> full_prompt,
   rationale |-> rationale, effectiveness_score |-> effectiveness_score]

FallbackRationale == [kind |-> "Fallback", ordering |-> << >>, score |-> 0]

\* mutant: the except clause answers with a fixed text, not the user's prompt
FallbackResult_no_prompt(user_prompt) ==
  LET fallback_component == PromptComponent("instruction", FallbackContent(None), 1)
  IN  OptimizedPrompt(<<fallback_component>>, <<fallback_component.content>>,
                      FallbackRationale, 50)

\* the except clause of optimize
FallbackResult(user_prompt) ==
  LET fallback_component == PromptComponent("instruction", FallbackContent(user_prompt), 1)
  IN  OptimizedPrompt(<<fallback_component>>, <<fallback_component.content>>,
                      FallbackRationale, 50)

NoSolve == [components |-> << >>, effectiveness_score |-> 0]
\* no key computed (a key is never the empty string)
NoKey == ""

\* what one optimize call did: the value it returned, the cache and the
\* history it left, and the path it took
Report(result, cache, hist, fallback, key, path, solved, target_tasks, target_behaviors, domain, save_failed) ==
  [result |-> result, cache |-> cache, history |-> hist, fallback |-> fallback,
   key |-> key, path |-> path, solved |-> solved, target_tasks |-> target_tasks,
   target_behaviors |-> target_behaviors, domain |-> domain,
   save_failed |-> save_failed]

\* mutant: the three fields are taken together: the caller's values when the
\* caller names any task or behavior, the analyzer's otherwise
resolve_targets_together(request, analysis) ==
  IF request.target_tasks # << >> \/ request.target_behaviors # << >>
  THEN [target_tasks |-> request.target_tasks,
        target_behaviors |-> request.target_behaviors,
        domain |-> request.domain]
  ELSE [target_tasks |-> analysis.detected_tasks,
        target_behaviors |-> analysis.detected_behaviors,
        domain |-> analysis.domain_hint]

\* lines 35-37: "request.x or task_analysis[...]", field by field; an empty
\* list, None and the empty string are false
resolve_targets(request, analysis) ==
  [target_tasks |-> IF request.target_tasks # << >>
                    THEN request.target_tasks ELSE analysis.detected_tasks,
   target_behaviors |-> IF request.target_behaviors # << >>
                        THEN request.target_behaviors
                        ELSE analysis.detected_behaviors,
   domain |-> IF request.domain # None /\ request.domain # ""
              THEN request.domain ELSE analysis.domain_hint]

optimize(cache, hist, request, analysis, fault, outcome, best_model, save_fault) ==
  LET fb == FallbackResult(request.user_prompt)
  IN
  IF fault.step = "analyze"
  THEN Report(fb, cache, hist, TRUE, NoKey, "none", NoSolve, << >>, << >>, None, FALSE)
  ELSE
  LET target_tasks == resolve_targets(request, analysis).target_tasks
      target_behaviors == resolve_targets(request, analysis).target_behaviors
      domain == resolve_targets(request, analysis).domain
  IN
  IF fault.step = "resolve"
  THEN Report(fb, cache, hist, TRUE, NoKey, "none", NoSolve,
              target_tasks, target_behaviors, domain, FALSE)
  ELSE
  LET cache_key == generate_cache_key(target_tasks, target_behaviors,
                                      request.target_model, domain)
      r == ResolveStructure(cache, cache_key, target_tasks, target_behaviors,
                            request.target_model, domain, outcome, best_model)
      solved == IF r.path = "miss"
                THEN [components |-> r.components,
                      effectiveness_score |-> r.effectiveness_score]
                ELSE NoSolve
      raise_at == IF fault.step = "content" /\ fault.index <= Len(r.components)
                  THEN fault.index ELSE 0
      components == FillContent(r.components, raise_at, request.user_prompt)
      cache3 == CacheAfterFill(r, cache_key, components)
  IN
  IF raise_at # 0 \/ fault.step \in {"assemble", "rationale"}
  THEN Report(fb, cache3, hist, TRUE, cache_key, r.path, solved,
              target_tasks, target_behaviors, domain, FALSE)
  ELSE
  LET full_prompt == assemble_prompt(components)
      rationale == generate_rationale(components, r.effectiveness_score)
      saved == save_to_db(hist, request.user_prompt, full_prompt, components,
                          request.target_model, r.effectiveness_score, rationale,
                          save_fault)
  IN
  IF saved.raised
  THEN Report(fb, cache3, saved.history, TRUE, cache_key, r.path, solved,
              target_tasks, target_behaviors, domain, TRUE)
  ELSE Report(OptimizedPrompt(components, full_prompt, rationale, r.effectiveness_score),
              cache3, saved.history, FALSE, cache_key, r.path, solved,
              target_tasks, target_behaviors, domain, save_fault.at # "none")

(***************************************************************************)
(* ASPEngine.update_efficacy: the in-memory write comes first, then the    *)
(* upsert of the ComponentEfficacyDB row; a failing write raises.          *)
(***************************************************************************)
\* mutant: the in-memory write replaces the table by the one entry
EfficacySet_only(efficacy, component, task_or_behavior, new_value) ==
  [k \in {<<component, task_or_behavior>>} |-> new_value]

EfficacySet(efficacy, component, task_or_behavior, new_value) ==
  [k \in DOMAIN efficacy \cup {<<component, task_or_behavior>>} |->
     IF k = <<component, task_or_behavior>> THEN new_value ELSE efficacy[k]]

EfficacyRow(component, task_or_behavior, new_value) ==
  [component_type |-> component,
   task_type |-> IF task_or_behavior \in TaskType THEN task_or_behavior ELSE None,
   behavior_type |-> IF task_or_behavior \in TaskType THEN None ELSE task_or_behavior,
   efficacy_value |-> new_value]

RowMatches(row, component, task_or_behavior) ==
  /\ row.component_type = component
  /\ IF task_or_behavior \in TaskType
     THEN row.task_type = task_or_behavior
     ELSE row.behavior_type = task_or_behavior

\* mutant: a new row is added whether or not the key has one
EfficacyUpsert_insert(db, component, task_or_behavior, new_value) ==
  Append(db, EfficacyRow(component, task_or_behavior, new_value))

\* mutant: an existing row keeps its value
EfficacyUpsert_keep(db, component, task_or_behavior, new_value) ==
  IF \E i \in 1..Len(db) : RowMatches(db[i], component, task_or_behavior)
  THEN db
  ELSE Append(db, EfficacyRow(component, task_or_behavior, new_value))

\* query(...).filter(...).first(), then update the row or add a new one
EfficacyUpsert(db, component, task_or_behavior, new_value) ==
  IF \E i \in 1..Len(db) : RowMatches(db[i], component, task_or_behavior)
  THEN LET f == CHOOSE i \in 1..Len(db) :
                  /\ RowMatches(db[i], component, task_or_behavior)
                  /\ \A j \in 1..(i - 1) : ~RowMatches(db[j], component, task_or_behavior)
       IN  [db EXCEPT ![f].efficacy_value = new_value]
  ELSE Append(db, EfficacyRow(component, task_or_behavior, new_value))

\* mutant: the durable write comes first and a failing one leaves the
\* in-memory table as it was
update_efficacy_db_first(efficacy, db, component, task_or_behavior, new_value, db_fails) ==
  [component_efficacy |-> IF db_fails THEN efficacy
                          ELSE EfficacySet(efficacy, component, task_or_behavior,
                                           new_value),
   efficacy_db |-> IF db_fails THEN db
                   ELSE EfficacyUpsert(db, component, task_or_behavior, new_value),
   raised |-> db_fails]

update_efficacy(efficacy, db, component, task_or_behavior, new_value, db_fails) ==
  [component_efficacy |-> EfficacySet(efficacy, component, task_or_behavior, new_value),
   efficacy_db |-> IF db_fails THEN db
                   ELSE EfficacyUpsert(db, component, task_or_behavior, new_value),
   raised |-> db_fails]

(***************************************************************************)
(* PromptOptimizer.provide_feedback                                        *)
(***************************************************************************)
\* mutant: provide_feedback without its try / except
provide_feedback_no_catch(efficacy, db, cache, component, task_or_behavior, value, db_fails) ==
  LET u == update_efficacy(efficacy, db, component, task_or_behavior,
                           value, db_fails)
  IN  [component_efficacy |-> u.component_efficacy,
       efficacy_db |-> u.efficacy_db,
       cache |-> IF u.raised THEN cache ELSE << >>,
       returned |-> ~u.raised,
       update_raised |-> u.raised,
       raised |-> u.raised]

\* mutant: provide_feedback without optimization_cache.clear()
provide_feedback_keep_cache(efficacy, db, cache, component, task_or_behavior, value, db_fails) ==
  LET u == update_efficacy(efficacy, db, component, task_or_behavior,
                           value, db_fails)
  IN  [component_efficacy |-> u.component_efficacy,
       efficacy_db |-> u.efficacy_db,
       cache |-> cache,
       returned |-> ~u.raised,
       update_raised |-> u.raised,
       raised |-> FALSE]

provide_feedback(efficacy, db, cache, component, task_or_behavior, value, db_fails) ==
  LET u == update_efficacy(efficacy, db, component, task_or_behavior,
                           value, db_fails)
  IN  [component_efficacy |-> u.component_efficacy,
       efficacy_db |-> u.efficacy_db,
       cache |-> IF u.raised THEN cache ELSE << >>,
       returned |-> ~u.raised,
       update_raised |-> u.raised,
       raised |-> FALSE]

(***************************************************************************)
(* The record of the last call.                                            *)
(***************************************************************************)
NoResult == OptimizedPrompt(<< >>, << >>, [kind |-> "none", ordering |-> << >>, score |-> 0], 0)
NoPrior == [pairs |-> << >>, effectiveness_score |-> 0, present |-> FALSE]

Pairs(components) ==
  [i \in 1..Len(components) |-> <<components[i].type, components[i].position>>]

NoSaved == [prompt_id |-> None, has_id |-> FALSE, closed |-> FALSE]

NoResponse == [status_code |-> 0, status |-> None, called |-> FALSE]

NoCall ==
  [op |-> "none", user_prompt |-> None, fault |-> "none", engine |-> "none",
   key |-> NoKey, path |-> "none", solved |-> NoSolve,
   target_tasks |-> << >>, target_behaviors |-> << >>, target_model |-> None,
   domain |-> None, result |-> NoResult, fallback |-> FALSE,
   save_failed |-> FALSE, prior |-> NoPrior, returned |-> FALSE,
   feedback |-> << >>, cleared |-> {}, after_feedback |-> FALSE,
   update_raised |-> FALSE, raised |-> FALSE, repeated |-> FALSE,
   instance |-> None, snapshot |-> << >>, load_fault |-> "none",
   facts |-> NoFacts, given |-> << >>, request |-> None, analysis |-> None,
   keys |-> << >>, saved |-> NoSaved, response |-> NoResponse]

ServedKeys == {served[i].key : i \in 1..Len(served)}

PriorOf(key) ==
  IF key \in ServedKeys
  THEN LET e == served[CHOOSE i \in 1..Len(served) : served[i].key = key]
       IN  [pairs |-> e.pairs, effectiveness_score |-> e.effectiveness_score,
            present |-> TRUE]
  ELSE NoPrior

\* the record of what was served, after a call that left the cache as `cache`
\* and returned `result` for `key`
ServedAfter(cache, key, fallback, result) ==
  LET kept == SelectSeq(served, LAMBDA e : e.key \in CacheKeys(cache) /\ (fallback \/ e.key # key))
  IN  IF fallback THEN kept
      ELSE Append(kept, [key |-> key, pairs |-> Pairs(result.components),
                         effectiveness_score |-> result.effectiveness_score])

\* no thread of the service is inside a call; no further ASPEngine instance
\* has been constructed
NoThreads == << >>
NoEngines == << >>

(***************************************************************************)
(* Initial state and actions.                                              *)
(***************************************************************************)
Init ==
  /\ optimal_models = OptimalModels
  /\ engine_model = NoModel
  /\ component_efficacy = DefaultComponentEfficacy
  /\ efficacy_db = << >>
  /\ optimization_cache = << >>
  /\ history = << >>
  /\ last = NoCall
  /\ served = << >>
  /\ calls = 0
  /\ feedbacks = 0
  /\ threads = NoThreads
  /\ engines = NoEngines

\* the models the engine can report in this state: the one it reported
\* before, or any optimal one when it has not reported yet
Reportable == IF engine_model = NoModel THEN optimal_models ELSE {engine_model}

\* the state after an optimize call that ran as o
OptimizeDone(o, request, fault, outcome, best_model) ==
  /\ engine_model' = IF o.path = "miss" /\ outcome = "model"
                     THEN best_model ELSE engine_model
  /\ optimization_cache' = o.cache
  /\ history' = o.history
  /\ served' = ServedAfter(o.cache, o.key, o.fallback, o.result)
  /\ last' = [NoCall EXCEPT
                !.op = "optimize",
                !.user_prompt = request.user_prompt,
                !.fault = fault.step,
                !.engine = IF o.path = "miss" THEN outcome ELSE "none",
                !.key = o.key,
                !.path = o.path,
                !.solved = o.solved,
                !.target_tasks = o.target_tasks,
                !.target_behaviors = o.target_behaviors,
                !.target_model = request.target_model,
                !.domain = o.domain,
                !.result = o.result,
                !.fallback = o.fallback,
                !.save_failed = o.save_failed,
                !.prior = IF o.key = NoKey THEN NoPrior ELSE PriorOf(o.key),
                \* the keys a successful provide_feedback just before this
                \* call found in the cache
                !.after_feedback = (last.op = "feedback" /\ last.returned),
                !.cleared = IF last.op = "feedback" /\ last.returned
                            THEN last.cleared ELSE {}]
  /\ calls' = calls + 1
  /\ UNCHANGED <<optimal_models, component_efficacy, efficacy_db, feedbacks,
                 threads, engines>>

\* one call of PromptOptimizer.optimize.  The engine's model is drawn only
\* in a call that reaches the engine and gets a model from it; the engine's
\* outcome is pinned in a call that does not reach the engine.
Optimize(request, analysis, fault, outcome, save_fault) ==
  /\ calls < MaxOptimize
  /\ \E o \in {optimize(optimization_cache, history, request, analysis, fault,
                        outcome, NoModel, save_fault)} :
       IF o.path = "miss" /\ outcome = "model"
       THEN \E best_model \in Reportable :
              \E om \in {optimize(optimization_cache, history, request, analysis,
                                  fault, outcome, best_model, save_fault)} :
                OptimizeDone(om, request, fault, outcome, best_model)
       ELSE /\ o.path # "miss" => outcome = "model"
            /\ OptimizeDone(o, request, fault, outcome, NoModel)

\* one call of PromptOptimizer.provide_feedback
ProvideFeedback(component, task_or_behavior, value, db_fails) ==
  /\ feedbacks < MaxFeedback
  /\ LET f == provide_feedback(component_efficacy, efficacy_db, optimization_cache,
                               component, task_or_behavior, value, db_fails)
     IN  /\ component_efficacy' = f.component_efficacy
         /\ efficacy_db' = f.efficacy_db
         /\ optimization_cache' = f.cache
         /\ last' = [NoCall EXCEPT
                       !.op = "feedback",
                       !.returned = f.returned,
                       !.update_raised = f.update_raised,
                       !.raised = f.raised,
                       !.feedback = <<component, task_or_behavior, value>>,
                       !.cleared = CacheKeys(optimization_cache)]
  /\ served' = << >>
  /\ feedbacks' = feedbacks + 1
  /\ UNCHANGED <<optimal_models, engine_model, history, calls, threads, engines>>

\* An input that a call never reads is pinned to its neutral value: the
\* engine's outcome when the call raises before step 2, the save fault when
\* it raises before step 6.
Next ==
  \/ \E request \in Requests, analysis \in Analyses, fault \in Faults :
       IF fault.step \in {"analyze", "resolve"}
       THEN Optimize(request, analysis, fault, "model", NoSaveFault)
       ELSE \E outcome \in EngineOutcomes :
              IF fault.step # "none"
              THEN Optimize(request, analysis, fault, outcome, NoSaveFault)
              ELSE \E save_fault \in SaveFaults :
                     Optimize(request, analysis, fault, outcome, save_fault)
  \/ \E fb \in FeedbackInputs, db_fails \in BOOLEAN :
       ProvideFeedback(fb[1], fb[2], fb[3], db_fails)

Spec == Init /\ [][Next]_vars

(***************************************************************************)
(* The engine on its own: direct calls of ASPEngine.solve and              *)
(* ASPEngine.update_efficacy, over a wider set of arguments.               *)
(***************************************************************************)
SolveTaskLists == {<< >>, <<"deduction", "abduction">>}
SolveBehaviorLists == {<<"precision">>, <<"step_by_step", "precision">>}
SolveModels == {None, "gpt-4", "mistral"}
SolveDomains == {None, "legal"}
UpdateInputs == {<<"instruction", "precision", 95>>, <<"example", "deduction", 10>>}

SolveCall(target_tasks, target_behaviors, target_model, domain, outcome, best_model) ==
  /\ engine_model' = IF outcome = "model" THEN best_model ELSE engine_model
  /\ last' = [NoCall EXCEPT
                !.op = "solve",
                !.engine = outcome,
                !.solved = solve(target_tasks, target_behaviors, target_model,
                                 domain, outcome, best_model),
                !.target_tasks = target_tasks,
                !.target_behaviors = target_behaviors,
                !.target_model = target_model,
                !.domain = domain,
                \* line 205: the facts of the program handed to the engine
                !.facts = generate_asp_facts(component_efficacy, target_tasks,
                                             target_behaviors, target_model,
                                             domain)]
  /\ UNCHANGED <<optimal_models, component_efficacy, efficacy_db,
                 optimization_cache, history, served, calls, feedbacks,
                 threads, engines>>

UpdateEfficacy(component, task_or_behavior, new_value, db_fails) ==
  /\ \E u \in {update_efficacy(component_efficacy, efficacy_db, component,
                                task_or_behavior, new_value, db_fails)} :
       /\ component_efficacy' = u.component_efficacy
       /\ efficacy_db' = u.efficacy_db
       /\ last' = [NoCall EXCEPT
                     !.op = "update",
                     !.returned = ~u.raised,
                     !.update_raised = u.raised,
                     !.raised = u.raised,
                     \* the call before this one was the same call with
                     \* the same outcome
                     !.repeated = /\ last.op = "update"
                                  /\ last.feedback = <<component, task_or_behavior, new_value>>
                                  /\ last.update_raised = u.raised,
                     !.feedback = <<component, task_or_behavior, new_value>>]
  /\ UNCHANGED <<optimal_models, engine_model, optimization_cache, history,
                 served, calls, feedbacks, threads, engines>>

SolveNext ==
  \/ \E target_tasks \in SolveTaskLists, target_behaviors \in SolveBehaviorLists,
        target_model \in SolveModels, domain \in SolveDomains,
        outcome \in EngineOutcomes :
       IF outcome = "model"
       THEN \E best_model \in Reportable :
              SolveCall(target_tasks, target_behaviors, target_model, domain,
                        outcome, best_model)
       ELSE SolveCall(target_tasks, target_behaviors, target_model, domain,
                      outcome, NoModel)
  \/ \E u \in UpdateInputs, db_fails \in BOOLEAN :
       UpdateEfficacy(u[1], u[2], u[3], db_fails)

SolveSpec == Init /\ [][SolveNext]_vars

(***************************************************************************)
(* ASPEngine.update_efficacy on its own: a behavior key and a task key,    *)
(* two values each, with and without a failing durable write.              *)
(***************************************************************************)
UpdateCalls ==
  {<<"instruction", "precision", 95>>, <<"instruction", "precision", 50>>,
   <<"example", "deduction", 10>>, <<"example", "deduction", 70>>}

UpdateNext ==
  \E u \in UpdateCalls, db_fails \in BOOLEAN :
    UpdateEfficacy(u[1], u[2], u[3], db_fails)

UpdateSpec == Init /\ [][UpdateNext]_vars

(***************************************************************************)
(* PromptOptimizer.provide_feedback with task and behavior keys, after     *)
(* optimize calls that filled the cache.                                   *)
(***************************************************************************)
FeedbackCalls ==
  {<<"instruction", "precision", 95>>, <<"example", "deduction", 10>>,
   <<"context", "creativity", 0>>}

FeedbackRequests == {r \in Requests : r.user_prompt = "p1"}

FeedbackNext ==
  \/ \E request \in FeedbackRequests, analysis \in Analyses,
        outcome \in {"nomodel", "model"} :
       Optimize(request, analysis, NoFault, outcome, NoSaveFault)
  \/ \E fb \in FeedbackCalls, db_fails \in BOOLEAN :
       ProvideFeedback(fb[1], fb[2], fb[3], db_fails)

FeedbackSpec == Init /\ [][FeedbackNext]_vars

(***************************************************************************)
(* Properties.                                                             *)
(***************************************************************************)
DefaultPairs ==
  << <<"instruction", 1>>, <<"context", 2>>, <<"example", 3>>,
     <<"constraint", 4>>, <<"output_format", 5>> >>

Types(components) == {components[i].type : i \in 1..Len(components)}

\* C1: when the engine raises or reports no model, solve returns the five
\* components instruction=1, context=2, example=3, constraint=4,
\* output_format=5 (placeholder content) with score 100, whatever the tasks,
\* behaviors, target model and domain.
C1_FallbackOnEngineFailure ==
  (last.op = "solve" /\ last.engine \in {"raise", "nomodel"}) =>
     /\ Pairs(last.solved.components) = DefaultPairs
     /\ \A i \in 1..Len(last.solved.components) :
          last.solved.components[i].content.kind = "placeholder"
     /\ last.solved.effectiveness_score = 100

C1_Witness ==
  /\ last.op = "solve"
  /\ last.engine = "nomodel"
  /\ last.target_tasks = <<"deduction", "abduction">>
  /\ last.target_model = "gpt-4"
  /\ last.domain = "legal"

\* C2: when the analyzer, the structure resolution, a content generation,
\* the assembly or the rationale generation raises, optimize returns exactly
\* one component (instruction, position 1, content embedding the user's
\* prompt), full_prompt equal to that content, the "Fallback" rationale and
\* score 50: nothing of the partially built result.
C2_FallbackOnStepFailure ==
  (last.op = "optimize"
   /\ last.fault \in {"analyze", "resolve", "content", "assemble", "rationale"}) =>
     /\ Len(last.result.components) = 1
     /\ last.result.components[1].type = "instruction"
     /\ last.result.components[1].position = 1
     /\ last.result.components[1].content.kind = "please_respond"
     /\ last.result.components[1].content.prompt = last.user_prompt
     /\ last.result.full_prompt = <<last.result.components[1].content>>
     /\ last.result.rationale.kind = "Fallback"
     /\ last.result.effectiveness_score = 50

C2_Witness ==
  /\ last.op = "optimize"
  /\ last.fault = "rationale"
  /\ last.path = "miss"
  /\ last.user_prompt = "p2"
  /\ Len(last.solved.components) = 5

\* C3 (as claimed): when the history write fails at any point (opening the
\* session, add, flush, commit, or the rollback / close that follows),
\* optimize still returns the computed result: the solver's components with
\* generated content, the assembled full_prompt, the rationale and the
\* solver's score, not the single-component 50 fallback.
C3_Claim ==
  (last.op = "optimize" /\ last.save_failed) =>
     /\ ~last.fallback
     /\ Len(last.result.components) = 5
     /\ \A i \in 1..Len(last.result.components) :
          last.result.components[i].content.kind = "generated"
     /\ last.result.full_prompt = assemble_prompt(last.result.components)
     /\ last.result.rationale.kind = "rationale"
     /\ last.result.effectiveness_score # 50

\* C4: in every structure solve returns (engine path or fallback path) each
\* position lies in 1..5 and no two components share a position.
C4_PositionsDistinct ==
  last.op = "solve" =>
     /\ \A i \in 1..Len(last.solved.components) :
          last.solved.components[i].position \in 1..5
     /\ \A i, j \in 1..Len(last.solved.components) :
          i # j => last.solved.components[i].position
                     # last.solved.components[j].position

C4_Witness ==
  /\ last.op = "solve"
  /\ last.engine = "model"
  /\ Len(last.solved.components) = 5
  /\ last.solved.components[2].type = "output_format"

\* C5: in every structure solve returns, an example component or a
\* constraint component comes with an instruction component.
C5_InstructionPresent ==
  last.op = "solve" =>
     (({"example", "constraint"} \cap Types(last.solved.components)) # {}
        => "instruction" \in Types(last.solved.components))

C5_Witness ==
  /\ last.op = "solve"
  /\ last.engine = "model"
  /\ {"example", "constraint"} \subseteq Types(last.solved.components)
  /\ Pairs(last.solved.components) # DefaultPairs

(***************************************************************************)
(* The objective the specification gives for the solver (section 4.1), in   *)
(* units of 1/10000: weights and efficacies are both in hundredths.        *)
(***************************************************************************)
RECURSIVE SeqSum(_)
SeqSum(s) == IF s = << >> THEN 0 ELSE Head(s) + SeqSum(Tail(s))

Lookup(table, key) == IF key \in DOMAIN table THEN table[key] ELSE 0

Adjustment(table, name, c, b) ==
  IF name \in DOMAIN table THEN Lookup(table[name], <<c, b>>) ELSE 0

Objective(a, target_tasks, target_behaviors, target_model, domain) ==
  SeqSum([i \in 1..Len(ComponentOrder) |->
    LET c == ComponentOrder[i]
    IN  IF a[c] = 0 THEN 0
        ELSE SeqSum([j \in 1..Len(target_tasks) |->
                       weights[target_tasks[j]]
                         * Lookup(component_efficacy, <<c, target_tasks[j]>>)])
             + weights["position"] * Lookup(position_effects, <<c, a[c]>>)
             + SeqSum([j \in 1..Len(target_behaviors) |->
                         weights[target_behaviors[j]]
                           * Lookup(component_efficacy, <<c, target_behaviors[j]>>)
                         + 100 * Adjustment(model_adjustments, target_model,
                                            c, target_behaviors[j])
                         + 100 * Adjustment(domain_adjustments, domain,
                                            c, target_behaviors[j])])])

AssignmentOf(components) ==
  [c \in ComponentType |->
     IF \E i \in 1..Len(components) : components[i].type = c
     THEN components[CHOOSE i \in 1..Len(components) : components[i].type = c].position
     ELSE 0]

\* C6 (as claimed): when the engine succeeds, the structure solve returns
\* maximizes the weighted sum of task efficacy, position effect and behavior
\* efficacy (plus model and domain adjustments) over the assignments that
\* satisfy the hard constraints, and the returned score is that objective
\* value for the current efficacy snapshot.
C6_Claim ==
  (last.op = "solve" /\ last.engine = "model") =>
     LET a == AssignmentOf(last.solved.components)
         value == Objective(a, last.target_tasks, last.target_behaviors,
                            last.target_model, last.domain)
     IN  /\ last.solved.effectiveness_score * 10000 = value
         /\ \A b \in optimal_models \cup AnswerSets :
              Objective(b, last.target_tasks, last.target_behaviors,
                        last.target_model, last.domain) <= value

\* C7: every result of optimize that did not take the 50 path has exactly
\* five components, one per component type, in ascending position order over
\* the positions 1..5, instruction at position 1, and a score above 0,
\* whether the structure came from the engine, the solver's fallback or the
\* cache.
C7_FiveOrderedComponents ==
  (last.op = "optimize" /\ ~last.fallback) =>
     /\ Len(last.result.components) = 5
     /\ Types(last.result.components) = ComponentType
     /\ \A i \in 1..Len(last.result.components) :
          last.result.components[i].position = i
     /\ last.result.components[1].type = "instruction"
     /\ last.result.effectiveness_score > 0

C7_Witness ==
  /\ last.op = "optimize"
  /\ ~last.fallback
  /\ last.path = "hit"
  /\ Len(last.result.components) = 5
  /\ Pairs(last.result.components) # DefaultPairs

\* C8: with no provide_feedback and no eviction in between, an optimize call
\* whose cache key equals that of an earlier successful call does not invoke
\* the solver, and what it returns has the same (type, position) pairs and
\* the same score as what that earlier call returned.  (A call that ends in
\* the 50 fallback returns no structure; C2 and C3 are about those.)
C8_SecondCallServedFromCache ==
  (last.op = "optimize" /\ last.prior.present) =>
     /\ last.path = "hit"
     /\ last.engine = "none"
     /\ ~last.fallback =>
          /\ Pairs(last.result.components) = last.prior.pairs
          /\ last.result.effectiveness_score = last.prior.effectiveness_score

C8_Witness ==
  /\ last.op = "optimize"
  /\ last.prior.present
  /\ ~last.fallback
  /\ last.path = "hit"
  /\ last.user_prompt = "p2"
  /\ \E i \in 1..Len(history) : history[i].user_prompt = "p1"

\* C9 (as claimed): entries of the Result Cache are never altered by what
\* happens to returned components: after any sequence of optimize calls
\* every cached component still carries the solver's placeholder content.
C9_Claim ==
  \A e \in 1..Len(optimization_cache) :
    \A i \in 1..Len(optimization_cache[e].components) :
      optimization_cache[e].components[i].content
        = Placeholder(optimization_cache[e].components[i].type)

\* C10: after a provide_feedback call that returns true the Result Cache is
\* empty, and the next optimize call that looks a key up misses and invokes
\* the solver, also for a key that was cached before the feedback.
C10_FeedbackClearsCache ==
  /\ (last.op = "feedback" /\ last.returned) => optimization_cache = << >>
  /\ (last.op = "optimize" /\ last.after_feedback /\ last.key # NoKey) =>
       /\ last.path = "miss"
       /\ last.engine \in EngineOutcomes

C10_Witness ==
  /\ last.op = "optimize"
  /\ last.after_feedback
  /\ last.key \in last.cleared
  /\ last.path = "miss"
  /\ last.engine = "model"

(***************************************************************************)
(* The Result Cache near its capacity.  The initial cache is the one that  *)
(* n earlier optimize calls with n different target models leave behind;   *)
(* in each of them the engine found no model and the rationale generator   *)
(* raised, so each stored its structure (line 59) and wrote no history.    *)
(* The counter of calls counts the calls made after those.                 *)
(***************************************************************************)
WarmRequest(n) ==
  [user_prompt |-> "p1", target_tasks |-> << >>, target_behaviors |-> <<"precision">>,
   target_model |-> "model-" \o ToString(n), domain |-> None]

RECURSIVE WarmCache(_)
WarmCache(n) ==
  IF n = 0 THEN << >>
  ELSE CHOOSE after \in
         {optimize(warm, << >>, WarmRequest(n), CHOOSE a \in Analyses : TRUE,
                   [step |-> "rationale", index |-> 0], "nomodel", NoModel,
                   NoSaveFault).cache : warm \in {WarmCache(n - 1)}} : TRUE

WarmSizes == {0, OPTIMIZATION_CACHE_SIZE - 1, OPTIMIZATION_CACHE_SIZE}

CacheRequests ==
  {[WarmRequest(1) EXCEPT !.target_model = m] :
     m \in {"gpt-4", "claude", "model-1", "model-2"}}

CacheInit ==
  /\ optimal_models = OptimalModels
  /\ engine_model = NoModel
  /\ component_efficacy = DefaultComponentEfficacy
  /\ efficacy_db = << >>
  /\ optimization_cache \in {WarmCache(n) : n \in WarmSizes}
  /\ history = << >>
  /\ last = NoCall
  /\ served = << >>
  /\ calls = 0
  /\ feedbacks = 0
  /\ threads = NoThreads
  /\ engines = NoEngines

CacheNext ==
  \/ \E request \in CacheRequests, analysis \in Analyses, outcome \in EngineOutcomes :
       Optimize(request, analysis, NoFault, outcome, NoSaveFault)
  \/ \E fb \in FeedbackInputs, db_fails \in BOOLEAN :
       ProvideFeedback(fb[1], fb[2], fb[3], db_fails)

CacheSpec == CacheInit /\ [][CacheNext]_vars

(***************************************************************************)
(* Calls that run on several threads of the service and share the module's *)
(* optimization_cache.  No statement of optimize or provide_feedback takes *)
(* a lock.  A thread is switched between the statements of optimize that   *)
(* read or change the set of keys of the dict: the membership test (41),   *)
(* the read (43), the call of the solver (49-54), the length test (56),    *)
(* the pop (58) and the store (59); steps 3 to 6 follow as one step, and   *)
(* provide_feedback is one step.  Each thread makes one call.              *)
(***************************************************************************)
Threads == {"t1", "t2"}

RaceRequests ==
  {[WarmRequest(1) EXCEPT !.target_model = m, !.user_prompt = user_prompt] :
     m \in {"gpt-4", "claude", "model-2"}, user_prompt \in Prompts}

\* stored: the entry of the thread's key in the cache is the list object the
\* thread works on (it stored it and nobody has replaced, evicted or cleared
\* it); filled: the components the content loop has done; stale: the
\* thread's solve ran before a provide_feedback that has returned true
IdleThread ==
  [pc |-> "idle", user_prompt |-> None, key |-> NoKey, components |-> << >>,
   effectiveness_score |-> 0, stored |-> FALSE, target_tasks |-> << >>,
   target_behaviors |-> << >>, target_model |-> None, domain |-> None,
   result |-> NoResult, filled |-> 0, stale |-> FALSE]

RaceInit ==
  /\ optimal_models = OptimalModels
  /\ engine_model = NoModel
  /\ component_efficacy = DefaultComponentEfficacy
  /\ efficacy_db = << >>
  /\ optimization_cache \in {WarmCache(n) : n \in WarmSizes}
  /\ history = << >>
  /\ last = NoCall
  /\ served = << >>
  /\ calls = 0
  /\ feedbacks = 0
  /\ threads = [t \in Threads |-> IdleThread]
  /\ engines = NoEngines

\* lines 32-40: analysis, resolution of the targets, the cache key
RaceBegin(t, request, analysis) ==
  /\ threads[t].pc = "idle"
  /\ LET target_tasks == resolve_targets(request, analysis).target_tasks
         target_behaviors == resolve_targets(request, analysis).target_behaviors
         domain == resolve_targets(request, analysis).domain
     IN  threads' = [threads EXCEPT ![t] =
           [IdleThread EXCEPT
              !.pc = "lookup",
              !.user_prompt = request.user_prompt,
              !.key = generate_cache_key(target_tasks, target_behaviors,
                                         request.target_model, domain),
              !.target_tasks = target_tasks,
              !.target_behaviors = target_behaviors,
              !.target_model = request.target_model,
              !.domain = domain]]
  /\ UNCHANGED <<optimal_models, engine_model, component_efficacy, efficacy_db,
                 optimization_cache, history, last, served, calls, feedbacks, engines>>

\* line 41: if cache_key in optimization_cache
RaceLookup(t) ==
  /\ threads[t].pc = "lookup"
  /\ threads' = [threads EXCEPT ![t].pc =
                   IF threads[t].key \in CacheKeys(optimization_cache)
                   THEN "read" ELSE "solve"]
  /\ UNCHANGED <<optimal_models, engine_model, component_efficacy, efficacy_db,
                 optimization_cache, history, last, served, calls, feedbacks, engines>>

\* lines 43-46: optimization_cache[cache_key] and the copy; a key that is
\* gone by now raises KeyError, which the except clause of optimize turns
\* into the fallback result
RaceRead(t) ==
  /\ threads[t].pc = "read"
  /\ threads' = [threads EXCEPT ![t] =
       IF threads[t].key \in CacheKeys(optimization_cache)
       THEN [@ EXCEPT !.pc = "fill",
                      !.components = CacheGet(optimization_cache, threads[t].key).components,
                      !.effectiveness_score =
                         CacheGet(optimization_cache, threads[t].key).effectiveness_score]
       ELSE [@ EXCEPT !.pc = "done",
                      !.result = FallbackResult(threads[t].user_prompt)]]
  /\ UNCHANGED <<optimal_models, engine_model, component_efficacy, efficacy_db,
                 optimization_cache, history, last, served, calls, feedbacks, engines>>

\* lines 49-54: asp_engine.solve
RaceSolve(t, outcome, best_model) ==
  /\ threads[t].pc = "solve"
  /\ \E s \in {solve(threads[t].target_tasks, threads[t].target_behaviors,
                      threads[t].target_model, threads[t].domain, outcome,
                      best_model)} :
       threads' = [threads EXCEPT ![t].pc = "checklen",
                                  ![t].components = s.components,
                                  ![t].effectiveness_score = s.effectiveness_score]
  /\ engine_model' = IF outcome = "model" THEN best_model ELSE engine_model
  /\ UNCHANGED <<optimal_models, component_efficacy, efficacy_db,
                 optimization_cache, history, last, served, calls, feedbacks, engines>>

\* line 56: if len(optimization_cache) >= OPTIMIZATION_CACHE_SIZE
RaceCheckLen(t) ==
  /\ threads[t].pc = "checklen"
  /\ threads' = [threads EXCEPT ![t].pc =
                   IF Len(optimization_cache) >= OPTIMIZATION_CACHE_SIZE
                   THEN "evict" ELSE "store"]
  /\ UNCHANGED <<optimal_models, engine_model, component_efficacy, efficacy_db,
                 optimization_cache, history, last, served, calls, feedbacks, engines>>

\* line 58: optimization_cache.pop(next(iter(optimization_cache))); on a
\* dict that was emptied meanwhile next() raises (fallback result)
RaceEvict(t) ==
  /\ threads[t].pc = "evict"
  /\ IF optimization_cache = << >>
     THEN /\ threads' = [threads EXCEPT ![t].pc = "done",
                            ![t].result = FallbackResult(threads[t].user_prompt)]
          /\ UNCHANGED optimization_cache
     ELSE /\ threads' = [u \in Threads |->
                           IF u = t THEN [threads[u] EXCEPT !.pc = "store"]
                           ELSE IF threads[u].key = Head(optimization_cache).key
                           THEN [threads[u] EXCEPT !.stored = FALSE]
                           ELSE threads[u]]
          /\ optimization_cache' = CacheEvict(optimization_cache)
  /\ UNCHANGED <<optimal_models, engine_model, component_efficacy, efficacy_db,
                 history, last, served, calls, feedbacks, engines>>

\* line 59: optimization_cache[cache_key] = (components, effectiveness_score);
\* the entry another thread stored under the same key is replaced
RaceStore(t) ==
  /\ threads[t].pc = "store"
  /\ optimization_cache' = CachePut(optimization_cache, threads[t].key,
                                    threads[t].components,
                                    threads[t].effectiveness_score)
  /\ threads' = [u \in Threads |->
                   IF u = t THEN [threads[u] EXCEPT !.pc = "fill", !.stored = TRUE]
                   ELSE IF threads[u].key = threads[t].key
                   THEN [threads[u] EXCEPT !.stored = FALSE]
                   ELSE threads[u]]
  /\ UNCHANGED <<optimal_models, engine_model, component_efficacy, efficacy_db,
                 history, last, served, calls, feedbacks, engines>>

\* mutant: a component that already carries generated content keeps it
FillOne_keep_generated(components, i, user_prompt) ==
  IF components[i].content.kind = "generated" THEN components
  ELSE [components EXCEPT
          ![i].content = GeneratedContent(components[i].type, user_prompt)]

\* lines 63-65, one round of the loop: component.content = generate_...
FillOne(components, i, user_prompt) ==
  [components EXCEPT
     ![i].content = GeneratedContent(components[i].type, user_prompt)]

\* lines 62-65: one round of the content loop.  The write is made to the
\* component object, so it shows in the cached entry while that entry is
\* the thread's own list.
RaceFill(t) ==
  /\ threads[t].pc = "fill"
  /\ threads[t].filled < Len(threads[t].components)
  /\ \E components \in {FillOne(threads[t].components, threads[t].filled + 1,
                                 threads[t].user_prompt)} :
       /\ threads' = [threads EXCEPT ![t].components = components,
                                     ![t].filled = threads[t].filled + 1]
       /\ optimization_cache' =
            IF threads[t].stored
            THEN CachePut(optimization_cache, threads[t].key, components,
                          threads[t].effectiveness_score)
            ELSE optimization_cache
  /\ UNCHANGED <<optimal_models, engine_model, component_efficacy, efficacy_db,
                 history, last, served, calls, feedbacks, engines>>

\* lines 68-90: assembly, rationale, history, result
RaceFinish(t) ==
  /\ threads[t].pc = "fill"
  /\ threads[t].filled = Len(threads[t].components)
  /\ LET th == threads[t]
         full_prompt == assemble_prompt(th.components)
         rationale == generate_rationale(th.components, th.effectiveness_score)
         saved == save_to_db(history, th.user_prompt, full_prompt, th.components,
                             th.target_model, th.effectiveness_score, rationale,
                             NoSaveFault)
     IN  /\ history' = saved.history
         /\ threads' = [threads EXCEPT ![t].pc = "done",
                           ![t].result = OptimizedPrompt(th.components, full_prompt,
                                                         rationale,
                                                         th.effectiveness_score)]
  /\ UNCHANGED <<optimal_models, engine_model, component_efficacy, efficacy_db,
                 optimization_cache, last, served, calls, feedbacks, engines>>

\* provide_feedback on a thread of its own.  When it returns true the cache
\* has been cleared (174): no thread's list is a cached entry any more, and
\* every thread that has solved and not yet stored holds a structure whose
\* solve read the values from before this feedback.
RaceFeedback(t, component, task_or_behavior, value, db_fails) ==
  /\ threads[t].pc = "idle"
  /\ \E f \in {provide_feedback(component_efficacy, efficacy_db, optimization_cache,
                                 component, task_or_behavior, value, db_fails)} :
       /\ component_efficacy' = f.component_efficacy
       /\ efficacy_db' = f.efficacy_db
       /\ optimization_cache' = f.cache
       /\ threads' = [u \in Threads |->
                        IF u = t THEN [threads[u] EXCEPT !.pc = "done"]
                        ELSE IF f.returned
                        THEN [threads[u] EXCEPT
                                !.stored = FALSE,
                                !.stale = threads[u].pc \in {"checklen", "evict", "store"}]
                        ELSE threads[u]]
  /\ UNCHANGED <<optimal_models, engine_model, history, last, served, calls,
                 feedbacks, engines>>

RaceNext ==
  \E t \in Threads :
    \/ \E request \in RaceRequests, analysis \in Analyses :
         RaceBegin(t, request, analysis)
    \/ RaceLookup(t)
    \/ RaceRead(t)
    \* which structure the solver returns plays no part in the steps on
    \* the cache: the solves here are those in which the engine raises or
    \* reports no model
    \/ \E outcome \in {"raise", "nomodel"} : RaceSolve(t, outcome, NoModel)
    \/ RaceCheckLen(t)
    \/ RaceEvict(t)
    \/ RaceStore(t)
    \/ RaceFill(t)
    \/ RaceFinish(t)
    \/ \E fb \in FeedbackInputs, db_fails \in BOOLEAN :
         RaceFeedback(t, fb[1], fb[2], fb[3], db_fails)

RaceSpec == RaceInit /\ [][RaceNext]_vars

(***************************************************************************)
(* ASPEngine.update_efficacy on several threads that share one engine and  *)
(* the database.  A thread is switched between the in-memory write (277),  *)
(* the query of its session (286-300) and the commit of its session        *)
(* (303-322).  No statement takes a lock and the table has no uniqueness   *)
(* constraint on the key (database.py 61-71).  Each thread makes one call. *)
(***************************************************************************)
IdleUpdate ==
  [pc |-> "idle", component |-> None, task_or_behavior |-> None, new_value |-> 0,
   db_efficacy |-> 0, raised |-> FALSE]

UpdateRaceInit ==
  /\ optimal_models = OptimalModels
  /\ engine_model = NoModel
  /\ component_efficacy = DefaultComponentEfficacy
  /\ efficacy_db = << >>
  /\ optimization_cache = << >>
  /\ history = << >>
  /\ last = NoCall
  /\ served = << >>
  /\ calls = 0
  /\ feedbacks = 0
  /\ threads = [t \in Threads |-> IdleUpdate]
  /\ engines = NoEngines

\* the call is made
UpdateBegin(t, component, task_or_behavior, new_value) ==
  /\ threads[t].pc = "idle"
  /\ threads' = [threads EXCEPT ![t] =
                   [IdleUpdate EXCEPT !.pc = "write",
                                      !.component = component,
                                      !.task_or_behavior = task_or_behavior,
                                      !.new_value = new_value]]
  /\ UNCHANGED <<optimal_models, engine_model, component_efficacy, efficacy_db,
                 optimization_cache, history, last, served, calls, feedbacks, engines>>

\* line 277: self.component_efficacy[(component, task_or_behavior)] = new_value
UpdateWrite(t) ==
  /\ threads[t].pc = "write"
  /\ component_efficacy' = EfficacySet(component_efficacy, threads[t].component,
                                       threads[t].task_or_behavior,
                                       threads[t].new_value)
  /\ threads' = [threads EXCEPT ![t].pc = "query"]
  /\ UNCHANGED <<optimal_models, engine_model, efficacy_db, optimization_cache,
                 history, last, served, calls, feedbacks, engines>>

\* lines 286-300: query(...).filter(...).first() in the thread's session;
\* db_efficacy is the number of the row found, 0 for None
UpdateQuery(t) ==
  /\ threads[t].pc = "query"
  /\ LET rows == {i \in 1..Len(efficacy_db) :
                    RowMatches(efficacy_db[i], threads[t].component,
                               threads[t].task_or_behavior)}
     IN  threads' = [threads EXCEPT
           ![t].pc = "commit",
           ![t].db_efficacy = IF rows = {} THEN 0
                              ELSE CHOOSE i \in rows : \A j \in rows : i <= j]
  /\ UNCHANGED <<optimal_models, engine_model, component_efficacy, efficacy_db,
                 optimization_cache, history, last, served, calls, feedbacks, engines>>

\* lines 303-327: the row found is assigned the value, or a new row is
\* added; commit; a failing write is rolled back and raised
UpdateCommit(t, db_fails) ==
  /\ threads[t].pc = "commit"
  /\ efficacy_db' =
       IF db_fails THEN efficacy_db
       ELSE IF threads[t].db_efficacy # 0
       THEN [efficacy_db EXCEPT ![threads[t].db_efficacy].efficacy_value =
                                   threads[t].new_value]
       ELSE Append(efficacy_db, EfficacyRow(threads[t].component,
                                            threads[t].task_or_behavior,
                                            threads[t].new_value))
  /\ threads' = [threads EXCEPT ![t].pc = "done", ![t].raised = db_fails]
  /\ UNCHANGED <<optimal_models, engine_model, component_efficacy,
                 optimization_cache, history, last, served, calls, feedbacks, engines>>

UpdateRaceNext ==
  \E t \in Threads :
    \/ \E u \in UpdateCalls : UpdateBegin(t, u[1], u[2], u[3])
    \/ UpdateWrite(t)
    \/ UpdateQuery(t)
    \/ \E db_fails \in BOOLEAN : UpdateCommit(t, db_fails)

UpdateRaceSpec == UpdateRaceInit /\ [][UpdateRaceNext]_vars

(***************************************************************************)
(* Several PromptOptimizer objects in one process.  get_optimizer builds a *)
(* new PromptOptimizer per request, PromptOptimizer.__init__ builds its    *)
(* own ASPEngine, and ASPEngine.__init__ builds its own component_efficacy *)
(* dict, then overlays the rows of the database (load_efficacy_from_db; a  *)
(* failing load is logged and the defaults are kept).  The Result Cache    *)
(* and the database are shared by the instances.                           *)
(***************************************************************************)
Instances == {"a", "b"}

NoEngine == [live |-> FALSE, component_efficacy |-> << >>, memo |-> NoMemo]

RECURSIVE LoadEfficacy(_, _)
LoadEfficacy(efficacy, rows) ==
  IF rows = << >> THEN efficacy
  ELSE LET row == Head(rows)
           loaded ==
             IF row.task_type # None
             THEN EfficacySet(efficacy, row.component_type, row.task_type,
                              row.efficacy_value)
             ELSE IF row.behavior_type # None
             THEN EfficacySet(efficacy, row.component_type, row.behavior_type,
                              row.efficacy_value)
             ELSE efficacy
       IN  LoadEfficacy(loaded, Tail(rows))

\* where a load raises: SessionLocal() (331), one of the four queries (334,
\* 348, 356, 368) or db.close() (381)
LoadFaults == {"none", "open", "efficacy", "positions", "models", "domains", "close"}

\* mutant: the load without its elif branch, rows of behavior keys are
\* skipped
load_efficacy_from_db_task_rows(efficacy, db, load_fault) ==
  [component_efficacy |->
     IF load_fault \in {"open", "efficacy"} THEN efficacy
     ELSE LoadEfficacy(efficacy, SelectSeq(db, LAMBDA row : row.task_type # None)),
   raised |-> load_fault # "none"]

\* load_efficacy_from_db (329-381) writes self.component_efficacy in place,
\* row by row (335-345), before the later queries run; the except clause
\* re-raises (378-379) and nothing is undone.  The program writes no row of
\* the position, model and domain tables, so those loops load nothing.
load_efficacy_from_db(efficacy, db, load_fault) ==
  [component_efficacy |->
     IF load_fault \in {"open", "efficacy"} THEN efficacy
     ELSE LoadEfficacy(efficacy, db),
   raised |-> load_fault # "none"]

\* __init__ with the call of load_efficacy_from_db outside any try
ASPEngine_init_no_catch(db, load_fault) ==
  LET loaded == load_efficacy_from_db(DefaultComponentEfficacy, db, load_fault)
  IN  [live |-> ~loaded.raised,
       component_efficacy |->
         IF loaded.raised THEN << >> ELSE loaded.component_efficacy,
       load_raised |-> loaded.raised,
       raised |-> loaded.raised]

\* ASPEngine.__init__ (16-140): the default tables, then the load inside
\* try / except Exception (136-140)
ASPEngine_init(db, load_fault) ==
  LET loaded == load_efficacy_from_db(DefaultComponentEfficacy, db, load_fault)
  IN  [live |-> TRUE,
       component_efficacy |-> loaded.component_efficacy,
       load_raised |-> loaded.raised,
       raised |-> FALSE]

InstanceInit ==
  /\ optimal_models = OptimalModels
  /\ engine_model = NoModel
  /\ component_efficacy = DefaultComponentEfficacy
  /\ efficacy_db = << >>
  /\ optimization_cache = << >>
  /\ history = << >>
  /\ last = NoCall
  /\ served = << >>
  /\ calls = 0
  /\ feedbacks = 0
  /\ threads = NoThreads
  /\ engines = [i \in Instances |-> NoEngine]

\* PromptOptimizer(...) -> ASPEngine()
Construct(i, load_fault) ==
  /\ ~engines[i].live
  /\ \E e \in {ASPEngine_init(efficacy_db, load_fault)} :
       /\ engines' = [engines EXCEPT ![i] =
                        [live |-> e.live,
                         component_efficacy |-> e.component_efficacy,
                         memo |-> NoMemo]]
       /\ last' = [NoCall EXCEPT !.op = "construct", !.instance = i,
                                 !.load_fault = load_fault,
                                 !.update_raised = e.load_raised,
                                 !.raised = e.raised]
  /\ UNCHANGED <<optimal_models, engine_model, component_efficacy, efficacy_db,
                 optimization_cache, history, served, calls, feedbacks, threads>>

\* engine.load_efficacy_from_db() on a constructed engine (as in
\* test_asp_engine.py 271-272): the tables are re-read in place, the memo
\* of generate_asp_facts is not touched
InstanceReload(i, load_fault) ==
  /\ engines[i].live
  /\ \E l \in {load_efficacy_from_db(engines[i].component_efficacy, efficacy_db,
                                      load_fault)} :
       /\ engines' = [engines EXCEPT ![i].component_efficacy = l.component_efficacy]
       /\ last' = [NoCall EXCEPT !.op = "load", !.instance = i,
                                 !.load_fault = load_fault,
                                 !.raised = l.raised]
  /\ UNCHANGED <<optimal_models, engine_model, component_efficacy, efficacy_db,
                 optimization_cache, history, served, calls, feedbacks, threads>>

\* provide_feedback on the PromptOptimizer i; update_efficacy clears the
\* memo of generate_asp_facts (280), which is one for all engines, right
\* after the in-memory write and before it opens the database session
InstanceFeedback(i, component, task_or_behavior, value, db_fails) ==
  /\ engines[i].live
  /\ \E f \in {provide_feedback(engines[i].component_efficacy, efficacy_db,
                                 optimization_cache, component, task_or_behavior,
                                 value, db_fails)} :
       /\ engines' = [j \in Instances |->
                        IF j = i
                        THEN [engines[j] EXCEPT
                                !.component_efficacy = f.component_efficacy,
                                !.memo = NoMemo]
                        ELSE [engines[j] EXCEPT !.memo = NoMemo]]
       /\ efficacy_db' = f.efficacy_db
       /\ optimization_cache' = f.cache
       /\ last' = [NoCall EXCEPT
                     !.op = "feedback",
                     !.instance = i,
                     !.returned = f.returned,
                     !.update_raised = f.update_raised,
                     !.raised = f.raised,
                     !.feedback = <<component, task_or_behavior, value>>]
  /\ feedbacks' = feedbacks + 1
  /\ UNCHANGED <<optimal_models, engine_model, component_efficacy, history,
                 served, calls, threads>>

\* asp_engine.solve on the engine of i: its facts come from
\* generate_asp_facts through the memo (205), built from the engine's own
\* component_efficacy when the arguments are not memoized
InstanceSolve(i, target_tasks, target_behaviors, target_model, domain, outcome, best_model) ==
  /\ engines[i].live
  /\ engine_model' = IF outcome = "model" THEN best_model ELSE engine_model
  /\ \E m \in {memoized_facts(engines[i].memo, engines[i].component_efficacy,
                               target_tasks, target_behaviors, target_model,
                               domain)} :
       /\ engines' = [engines EXCEPT ![i].memo = m.memo]
       /\ last' = [NoCall EXCEPT
                     !.op = "solve",
                     !.instance = i,
                     !.engine = outcome,
                     !.solved = solve(target_tasks, target_behaviors, target_model,
                                      domain, outcome, best_model),
                     !.target_tasks = target_tasks,
                     !.target_behaviors = target_behaviors,
                     !.target_model = target_model,
                     !.domain = domain,
                     !.snapshot = engines[i].component_efficacy,
                     !.facts = m.facts]
  /\ UNCHANGED <<optimal_models, component_efficacy, efficacy_db,
                 optimization_cache, history, served, calls, feedbacks,
                 threads>>

\* the feedback of FeedbackCalls and a second value for one of its keys
InstanceFeedbackCalls == FeedbackCalls \cup {<<"instruction", "precision", 50>>}

InstanceNext ==
  \E i \in Instances :
    \/ \E load_fault \in LoadFaults : Construct(i, load_fault)
    \/ \E load_fault \in LoadFaults : InstanceReload(i, load_fault)
    \/ /\ feedbacks < MaxInstanceFeedback
       /\ \E fb \in InstanceFeedbackCalls, db_fails \in BOOLEAN :
            InstanceFeedback(i, fb[1], fb[2], fb[3], db_fails)
    \* the engine's answer plays no part in what the engines hold: the
    \* solves here are those in which it raises or reports no model
    \/ \E outcome \in {"raise", "nomodel"} :
         InstanceSolve(i, <<"deduction">>, <<"precision">>, "gpt-4", None,
                       outcome, NoModel)

InstanceSpec == InstanceInit /\ [][InstanceNext]_vars

(***************************************************************************)
(* _save_to_db on its own, as test_prompt_optimizer.py 160-241 calls it:   *)
(* a list of components at positions 1, 2, ..., and a step that raises or  *)
(* none.                                                                   *)
(***************************************************************************)
SaveLists ==
  UNION {[1..n -> {"instruction", "context", "example"}] : n \in 0..2}

SaveComponents(types) ==
  [i \in 1..Len(types) |->
     PromptComponent(types[i], GeneratedContent(types[i], "p1"), i)]

SaveToDb(types, save_fault) ==
  /\ calls < MaxOptimize
  /\ \E components \in {SaveComponents(types)} :
       \E s \in {save_to_db(history, "p1", assemble_prompt(components), components,
                            "gpt-4", 80, generate_rationale(components, 80),
                            save_fault)} :
         /\ history' = s.history
         /\ last' = [NoCall EXCEPT
                       !.op = "save",
                       !.fault = save_fault.at,
                       !.given = components,
                       !.raised = s.raised,
                       !.saved = [prompt_id |-> s.prompt_id, has_id |-> s.has_id,
                                  closed |-> s.closed]]
  /\ calls' = calls + 1
  /\ UNCHANGED <<optimal_models, engine_model, component_efficacy, efficacy_db,
                 optimization_cache, served, feedbacks, threads, engines>>

SaveNext ==
  \E types \in SaveLists, save_fault \in SaveFaults : SaveToDb(types, save_fault)

SaveSpec == Init /\ [][SaveNext]_vars

(***************************************************************************)
(* POST /api/v1/feedback (api/optimizer.py 83-131).  The body is a JSON    *)
(* object: a function from the keys that are present to JSON values.       *)
(***************************************************************************)
JsonString(text) == [kind |-> "string", value |-> text]
JsonNumber(n) == [kind |-> "number", value |-> n]
JsonNull == [kind |-> "null", value |-> None]

\* feedback.get(key): None for an absent key
DictGet(feedback, key) == IF key \in DOMAIN feedback THEN feedback[key] ELSE JsonNull

\* the truth value Python gives a JSON value
Truthy(json) ==
  IF json.kind = "string" THEN json.value # ""
  ELSE IF json.kind = "number" THEN json.value # 0
  ELSE FALSE

\* EnumClass(value): the member with that value, or ValueError
EnumOf(json, members) ==
  IF json.kind = "string" /\ json.value \in members
  THEN [raised |-> "none", value |-> json.value]
  ELSE [raised |-> "ValueError", value |-> None]

\* the texts of the bodies that float() parses
NumericTexts == [text \in {"95"} |-> 95]

\* float(value): a number as it is, a text parsed or ValueError, None
\* TypeError
FloatOf(json) ==
  IF json.kind = "number" THEN [raised |-> "none", value |-> json.value]
  ELSE IF json.kind = "string"
  THEN IF json.value \in DOMAIN NumericTexts
       THEN [raised |-> "none", value |-> NumericTexts[json.value]]
       ELSE [raised |-> "ValueError", value |-> 0]
  ELSE [raised |-> "TypeError", value |-> 0]

\* the answer of the endpoint without a call of the core
Refused(status_code, db, cache) ==
  [status_code |-> status_code, status |-> None, called |-> FALSE,
   arguments |-> << >>, returned |-> FALSE, efficacy_db |-> db, cache |-> cache]

\* except ValueError -> 400 (124-127), except Exception -> 500 (128-131)
StatusOfRaised(raised) == IF raised = "ValueError" THEN 400 ELSE 500

feedback_endpoint(feedback, efficacy, db, cache, db_fails) ==
  IF \E field \in {"component_type", "effectiveness"} : field \notin DOMAIN feedback
  THEN Refused(400, db, cache)
  ELSE IF "task_type" \notin DOMAIN feedback /\ "behavior_type" \notin DOMAIN feedback
  THEN Refused(400, db, cache)
  ELSE
  LET component_type == EnumOf(DictGet(feedback, "component_type"), ComponentType)
      task_or_behavior ==
        IF Truthy(DictGet(feedback, "task_type"))
        THEN EnumOf(DictGet(feedback, "task_type"), TaskType)
        ELSE EnumOf(DictGet(feedback, "behavior_type"), BehaviorType)
      effectiveness_value == FloatOf(DictGet(feedback, "effectiveness"))
  IN
  IF component_type.raised # "none"
  THEN Refused(StatusOfRaised(component_type.raised), db, cache)
  ELSE IF task_or_behavior.raised # "none"
  THEN Refused(StatusOfRaised(task_or_behavior.raised), db, cache)
  ELSE IF effectiveness_value.raised # "none"
  THEN Refused(StatusOfRaised(effectiveness_value.raised), db, cache)
  ELSE
  LET f == provide_feedback(efficacy, db, cache, component_type.value,
                            task_or_behavior.value, effectiveness_value.value,
                            db_fails)
  IN  [status_code |-> IF f.returned THEN 200 ELSE StatusOfRaised("HTTPException"),
       status |-> IF f.returned THEN "success" ELSE None,
       called |-> TRUE,
       arguments |-> <<component_type.value, task_or_behavior.value,
                       effectiveness_value.value>>,
       returned |-> f.returned,
       efficacy_db |-> f.efficacy_db,
       cache |-> f.cache]

\* marks a key that the body does not have
JsonAbsent == [kind |-> "absent", value |-> None]

\* the bodies: each key absent or with one of its values
FeedbackFields ==
  [component_type : {JsonAbsent, JsonString("instruction"), JsonString("invalid")},
   task_type : {JsonAbsent, JsonString(""), JsonString("deduction"),
                JsonString("invalid")},
   behavior_type : {JsonAbsent, JsonString("precision"), JsonString("invalid")},
   effectiveness : {JsonAbsent, JsonNumber(95), JsonString("95"), JsonString("abc"),
                    JsonNull}]

\* the JSON object of a choice of fields: the keys that are not absent
FeedbackBody(fields) ==
  LET keys == {"component_type", "task_type", "behavior_type", "effectiveness"}
      PresentKeys == {key \in keys :
                        IF key = "component_type"
                        THEN fields.component_type.kind # "absent"
                        ELSE IF key = "task_type"
                        THEN fields.task_type.kind # "absent"
                        ELSE IF key = "behavior_type"
                        THEN fields.behavior_type.kind # "absent"
                        ELSE fields.effectiveness.kind # "absent"}
  IN  [key \in PresentKeys |->
         IF key = "component_type" THEN fields.component_type
         ELSE IF key = "task_type" THEN fields.task_type
         ELSE IF key = "behavior_type" THEN fields.behavior_type
         ELSE fields.effectiveness]

\* one request: get_optimizer builds a PromptOptimizer for it (22-24), whose
\* engine holds the defaults overlaid with the rows of the database
PostFeedback(feedback, db_fails) ==
  /\ feedbacks < MaxRequests
  /\ \E e \in {feedback_endpoint(feedback,
                                  ASPEngine_init(efficacy_db, "none").component_efficacy,
                                  efficacy_db, optimization_cache, db_fails)} :
       /\ efficacy_db' = e.efficacy_db
       /\ optimization_cache' = e.cache
       /\ last' = [NoCall EXCEPT
                     !.op = "post_feedback",
                     !.given = feedback,
                     !.feedback = e.arguments,
                     !.returned = e.returned,
                     !.response = [status_code |-> e.status_code,
                                   status |-> e.status,
                                   called |-> e.called]]
  /\ feedbacks' = feedbacks + 1
  /\ UNCHANGED <<optimal_models, engine_model, component_efficacy, history,
                 served, calls, threads, engines>>

EndpointNext ==
  \E fields \in FeedbackFields, db_fails \in BOOLEAN :
    PostFeedback(FeedbackBody(fields), db_fails)

EndpointSpec == Init /\ [][EndpointNext]_vars

(***************************************************************************)
(* A restart, as in test_asp_engine.py 222-282: the engine "a" performs    *)
(* update_efficacy calls whose durable writes succeed, one after the       *)
(* other, on task keys and behavior keys; at any point a second engine is  *)
(* constructed over the same durable store and loads from it.              *)
(***************************************************************************)
RestartCalls == UpdateCalls \cup FeedbackCalls

RestartInit ==
  /\ optimal_models = OptimalModels
  /\ engine_model = NoModel
  /\ component_efficacy = DefaultComponentEfficacy
  /\ efficacy_db = << >>
  /\ optimization_cache = << >>
  /\ history = << >>
  /\ last = NoCall
  /\ served = << >>
  /\ calls = 0
  /\ feedbacks = 0
  /\ threads = NoThreads
  /\ engines = [i \in Instances |->
                  IF i = "a"
                  THEN [live |-> TRUE,
                        component_efficacy |->
                          ASPEngine_init(<< >>, "none").component_efficacy,
                        memo |-> NoMemo]
                  ELSE NoEngine]

\* the process of engine i ends and its in-memory tables are gone; the
\* durable store stays
InstanceExit(i) ==
  /\ engines[i].live
  /\ engines' = [engines EXCEPT ![i] = NoEngine]
  /\ last' = [NoCall EXCEPT !.op = "exit", !.instance = i]
  /\ UNCHANGED <<optimal_models, engine_model, component_efficacy, efficacy_db,
                 optimization_cache, history, served, calls, feedbacks, threads>>

RestartNext ==
  \/ /\ feedbacks < MaxRestartUpdates
     /\ \E u \in RestartCalls : InstanceFeedback("a", u[1], u[2], u[3], FALSE)
  \/ Construct("b", "none")
  \/ InstanceExit("b")

RestartSpec == RestartInit /\ [][RestartNext]_vars

(***************************************************************************)
(* generate_asp_facts on its own, as test_asp_engine.py 21-47 calls it: any *)
(* argument tuple, on the efficacy values left by any update_efficacy      *)
(* calls.                                                                  *)
(***************************************************************************)
FactsModels == {None, "", "gpt-4", "claude", "mistral"}
FactsDomains == {None, "legal", "finance"}

GenerateFacts(tasks_tuple, behaviors_tuple, target_model, domain) ==
  /\ last' = [NoCall EXCEPT
                !.op = "facts",
                !.target_tasks = tasks_tuple,
                !.target_behaviors = behaviors_tuple,
                !.target_model = target_model,
                !.domain = domain,
                !.snapshot = component_efficacy,
                !.facts = generate_asp_facts(component_efficacy, tasks_tuple,
                                             behaviors_tuple, target_model,
                                             domain)]
  /\ UNCHANGED <<optimal_models, engine_model, component_efficacy, efficacy_db,
                 optimization_cache, history, served, calls, feedbacks,
                 threads, engines>>

FactsNext ==
  \/ \E tasks_tuple \in SolveTaskLists, behaviors_tuple \in SolveBehaviorLists,
        target_model \in FactsModels, domain \in FactsDomains :
       GenerateFacts(tasks_tuple, behaviors_tuple, target_model, domain)
  \/ \E u \in UpdateInputs, db_fails \in BOOLEAN :
       UpdateEfficacy(u[1], u[2], u[3], db_fails)

FactsSpec == Init /\ [][FactsNext]_vars

(***************************************************************************)
(* MetaLLMAnalyzer.assemble_prompt on its own, as test_meta_llm.py 263-283 *)
(* calls it: a list of up to MaxComponents components in any order, with   *)
(* positions that may repeat.                                              *)
(***************************************************************************)
AssembleComponents ==
  {PromptComponent(t, GeneratedContent(t, user_prompt), position) :
     t \in {"instruction", "context", "example"}, user_prompt \in Prompts,
     position \in 1..3}

AssembleLists == UNION {[1..n -> AssembleComponents] : n \in 0..MaxComponents}

\* one call: the text returned and the caller's list after the call;
\* sorted() (201) builds a new list and the join (204) only reads
assemble_call(components) ==
  [full_prompt |-> assemble_prompt(components), components |-> components]

\* the list some caller holds
AssembleInit ==
  /\ optimal_models = OptimalModels
  /\ engine_model = NoModel
  /\ component_efficacy = DefaultComponentEfficacy
  /\ efficacy_db = << >>
  /\ optimization_cache = << >>
  /\ history = << >>
  /\ \E components \in AssembleLists : last = [NoCall EXCEPT !.given = components]
  /\ served = << >>
  /\ calls = 0
  /\ feedbacks = 0
  /\ threads = NoThreads
  /\ engines = NoEngines

AssemblePrompt ==
  /\ last.op = "none"
  /\ \E a \in {assemble_call(last.given)} :
       last' = [last EXCEPT
                  !.op = "assemble",
                  !.solved = [NoSolve EXCEPT !.components = a.components],
                  !.result = [NoResult EXCEPT !.full_prompt = a.full_prompt]]
  /\ UNCHANGED <<optimal_models, engine_model, component_efficacy, efficacy_db,
                 optimization_cache, history, served, calls, feedbacks,
                 threads, engines>>

AssembleNext == AssemblePrompt

AssembleSpec == AssembleInit /\ [][AssembleNext]_vars

(***************************************************************************)
(* optimize on requests that supply some of target_tasks, target_behaviors *)
(* and domain and leave the others empty, with analyses that detect some   *)
(* of them.  No collaborator raises; the engine reports no model.          *)
(***************************************************************************)
ResolveRequests ==
  [user_prompt : {"p1"}, target_tasks : {<< >>, <<"induction">>},
   target_behaviors : {<< >>, <<"creativity">>}, target_model : {"gpt-4"},
   domain : {None, "", "legal"}]

ResolveAnalyses ==
  [detected_tasks : {<< >>, <<"deduction">>},
   detected_behaviors : {<<"precision", "step_by_step">>},
   domain_hint : {None, "medical"}]

ResolveOptimize(request, analysis, outcome) ==
  /\ calls < MaxOptimize
  /\ \E o \in {optimize(optimization_cache, history, request, analysis, NoFault,
                        outcome, NoModel, NoSaveFault)} :
       /\ optimization_cache' = o.cache
       /\ history' = o.history
       /\ served' = ServedAfter(o.cache, o.key, o.fallback, o.result)
       /\ last' = [NoCall EXCEPT
                     !.op = "optimize",
                     !.user_prompt = request.user_prompt,
                     !.engine = IF o.path = "miss" THEN outcome ELSE "none",
                     !.key = o.key,
                     !.path = o.path,
                     !.solved = o.solved,
                     \* the arguments of the solve call (49-54)
                     !.target_tasks = o.target_tasks,
                     !.target_behaviors = o.target_behaviors,
                     !.target_model = request.target_model,
                     !.domain = o.domain,
                     !.result = o.result,
                     !.fallback = o.fallback,
                     !.request = request,
                     !.analysis = analysis]
  /\ calls' = calls + 1
  /\ UNCHANGED <<optimal_models, engine_model, component_efficacy, efficacy_db,
                 feedbacks, threads, engines>>

ResolveNext ==
  \E request \in ResolveRequests, analysis \in ResolveAnalyses :
    ResolveOptimize(request, analysis, "nomodel")

ResolveSpec == Init /\ [][ResolveNext]_vars

(***************************************************************************)
(* _generate_cache_key on its own, as test_prompt_optimizer.py 20-47 calls *)
(* it, on two argument tuples at a time.  target_model and domain are free *)
(* text of the request (prompt.py 33-34), so they may contain the          *)
(* separator "|" or be the word "none".                                    *)
(***************************************************************************)
KeyTaskLists ==
  {<< >>, <<"deduction">>, <<"deduction", "comparison">>, <<"comparison", "deduction">>}

KeyBehaviorLists ==
  {<<"precision">>, <<"step_by_step", "precision">>, <<"precision", "step_by_step">>}

KeyModels == {"gpt-4", "gpt-4|legal"}

KeyDomains == {None, "", "none", "legal", "legal|none"}

KeyArguments ==
  [target_tasks : KeyTaskLists, target_behaviors : KeyBehaviorLists,
   target_model : KeyModels, domain : KeyDomains]

\* the two argument tuples
KeyInit ==
  /\ optimal_models = OptimalModels
  /\ engine_model = NoModel
  /\ component_efficacy = DefaultComponentEfficacy
  /\ efficacy_db = << >>
  /\ optimization_cache = << >>
  /\ history = << >>
  /\ \E a, b \in KeyArguments : last = [NoCall EXCEPT !.given = <<a, b>>]
  /\ served = << >>
  /\ calls = 0
  /\ feedbacks = 0
  /\ threads = NoThreads
  /\ engines = NoEngines

GenerateKeys ==
  /\ last.op = "none"
  /\ last' = [last EXCEPT
                !.op = "key",
                !.keys = [i \in 1..2 |->
                            generate_cache_key(last.given[i].target_tasks,
                                               last.given[i].target_behaviors,
                                               last.given[i].target_model,
                                               last.given[i].domain)]]
  /\ UNCHANGED <<optimal_models, engine_model, component_efficacy, efficacy_db,
                 optimization_cache, history, served, calls, feedbacks,
                 threads, engines>>

KeyNext == GenerateKeys

KeySpec == KeyInit /\ [][KeyNext]_vars

\* the rows of the durable store that hold the key
RowsOf(db, component, task_or_behavior) ==
  {i \in 1..Len(db) : RowMatches(db[i], component, task_or_behavior)}

\* C11 (as claimed): after every provide_feedback call, also one whose
\* efficacy update failed and that returns false, the Result Cache is empty.
C11_Claim ==
  last.op = "feedback" => optimization_cache = << >>

\* C12: provide_feedback never raises to its caller; when the efficacy
\* update raises it returns false, and it returns true only when the update
\* completed (the in-memory value and the durable record are written).
C12_FeedbackNeverRaises ==
  last.op = "feedback" =>
     /\ ~last.raised
     /\ last.update_raised => last.returned = FALSE
     /\ last.returned =>
          /\ ~last.update_raised
          /\ component_efficacy[<<last.feedback[1], last.feedback[2]>>]
               = last.feedback[3]
          /\ \E i \in RowsOf(efficacy_db, last.feedback[1], last.feedback[2]) :
               efficacy_db[i].efficacy_value = last.feedback[3]

C12_Witness ==
  /\ last.op = "feedback"
  /\ last.update_raised
  /\ ~last.returned
  /\ ~last.raised
  /\ optimization_cache # << >>

\* C13 (as claimed): a failure of the durable write during an efficacy
\* update does not fail the triggering operation: the update still reports
\* success for the in-memory update.
C13_Claim ==
  (last.op = "feedback" /\ last.update_raised) => last.returned

\* C14: after provide_feedback(c, k, v) returns true the efficacy table the
\* solver reads has value v for (c, k), for task keys and behavior keys
\* alike, and every other efficacy key keeps its value.  (Position effects,
\* weights, model and domain adjustments are assigned at construction only.)
C14_FeedbackSetsOneKey ==
  [][ (last'.op = "feedback" /\ last'.returned) =>
        LET key == <<last'.feedback[1], last'.feedback[2]>>
        IN  /\ DOMAIN component_efficacy' = DOMAIN component_efficacy \cup {key}
            /\ component_efficacy'[key] = last'.feedback[3]
            /\ \A k \in DOMAIN component_efficacy \ {key} :
                 component_efficacy'[k] = component_efficacy[k] ]_vars

C14_Witness ==
  /\ last.op = "feedback"
  /\ last.returned
  /\ last.feedback = <<"example", "deduction", 10>>
  /\ component_efficacy[<<"example", "deduction">>] = 10
  /\ component_efficacy[<<"instruction", "precision">>] = 70

\* C15: update_efficacy is idempotent: the second of two calls in a row with
\* the same (component, task_or_behavior, value) and the same outcome leaves
\* the in-memory table and the durable store as the first call left them
\* (same records, same values, no extra record).
C15_UpdateIdempotent ==
  [][ (last'.op = "update" /\ last'.repeated) =>
        /\ component_efficacy' = component_efficacy
        /\ efficacy_db' = efficacy_db ]_vars

C15_Witness ==
  /\ last.op = "update"
  /\ last.repeated
  /\ last.returned
  /\ last.feedback = <<"example", "deduction", 70>>
  /\ Len(efficacy_db) = 2

\* C16: from an empty durable store, after any sequence of update_efficacy
\* calls the store holds at most one record per (component,
\* task_or_behavior) key; an update whose write completes overwrites the
\* key's record when there is one and inserts one only when there is none,
\* leaving the key's record with the new value and the other records as
\* they were; an update whose write fails leaves the store as it was.
C16_UpsertOneRecordPerKey ==
  /\ [](\A c \in ComponentType, k \in TaskType \cup BehaviorType :
          Cardinality(RowsOf(efficacy_db, c, k)) <= 1)
  /\ [][ last'.op = "update" =>
           LET c == last'.feedback[1]
               k == last'.feedback[2]
           IN  IF last'.returned
               THEN /\ Len(efficacy_db') =
                         IF RowsOf(efficacy_db, c, k) # {}
                         THEN Len(efficacy_db) ELSE Len(efficacy_db) + 1
                    /\ \A i \in RowsOf(efficacy_db', c, k) :
                         efficacy_db'[i].efficacy_value = last'.feedback[3]
                    /\ RowsOf(efficacy_db', c, k) # {}
                    /\ \A i \in 1..Len(efficacy_db) :
                         i \notin RowsOf(efficacy_db, c, k)
                           => efficacy_db'[i] = efficacy_db[i]
               ELSE efficacy_db' = efficacy_db ]_vars

C16_Witness ==
  /\ last.op = "update"
  /\ last.returned
  /\ last.feedback = <<"instruction", "precision", 50>>
  /\ Len(efficacy_db) = 2
  /\ efficacy_db[1].component_type = "instruction"
  /\ efficacy_db[1].efficacy_value = 50
  /\ efficacy_db[2].efficacy_value = 70

\* C17: after any sequence of sequential optimize and provide_feedback
\* calls the Result Cache holds at most OPTIMIZATION_CACHE_SIZE (32) entries.
C17_CacheWithinCapacity ==
  Len(optimization_cache) <= OPTIMIZATION_CACHE_SIZE

C17_Witness ==
  /\ last.op = "optimize"
  /\ last.path = "miss"
  /\ Len(optimization_cache) = OPTIMIZATION_CACHE_SIZE
  /\ generate_cache_key(<<"deduction">>, <<"precision">>, "model-1", None)
       \notin CacheKeys(optimization_cache)
  /\ generate_cache_key(<<"deduction">>, <<"precision">>, "model-2", None)
       \in CacheKeys(optimization_cache)

\* C18 (as claimed): under every interleaving of concurrent optimize and
\* provide_feedback calls that share the Result Cache, the cache never holds
\* more than 32 entries.
C18_Claim ==
  Len(optimization_cache) <= OPTIMIZATION_CACHE_SIZE

\* C19 (as claimed): concurrent update_efficacy calls on the same key behave
\* as if serialized: once all of them have completed (none of them failed),
\* the in-memory value and the durable value of the key are equal, are the
\* value written by one of the calls, and the durable store holds a single
\* record for the key.
C19_Claim ==
  (/\ \A t \in Threads : threads[t].pc = "done" /\ ~threads[t].raised
   /\ \A t, u \in Threads :
        /\ threads[t].component = threads[u].component
        /\ threads[t].task_or_behavior = threads[u].task_or_behavior)
  =>
  LET c == threads[CHOOSE t \in Threads : TRUE].component
      k == threads[CHOOSE t \in Threads : TRUE].task_or_behavior
  IN  /\ Cardinality(RowsOf(efficacy_db, c, k)) = 1
      /\ \A i \in RowsOf(efficacy_db, c, k) :
           /\ efficacy_db[i].efficacy_value = component_efficacy[<<c, k>>]
           /\ \E t \in Threads : efficacy_db[i].efficacy_value = threads[t].new_value

\* C20 (as claimed): the efficacy store is one per process: the value
\* written by a completed provide_feedback on any PromptOptimizer is the
\* value every later solve in the process reads, also on a PromptOptimizer /
\* ASPEngine constructed before the feedback.  (The durable record of a key carries the value of the last
\* completed feedback on it.)
C20_Claim ==
  last.op = "solve" =>
    \A r \in 1..Len(efficacy_db) :
      LET key == <<efficacy_db[r].component_type,
                   IF efficacy_db[r].task_type # None
                   THEN efficacy_db[r].task_type ELSE efficacy_db[r].behavior_type>>
      IN  /\ key \in DOMAIN last.snapshot
          /\ last.snapshot[key] = efficacy_db[r].efficacy_value

\* C21: constructing an engine never fails because of the database: wherever
\* the load raises, ASPEngine.__init__ returns normally and the engine exists.
C21_ConstructionSurvivesLoadFailure ==
  last.op = "construct" =>
    /\ ~last.raised
    /\ engines[last.instance].live

\* a construction whose load raised after it had opened the session
C21_Witness ==
  /\ last.op = "construct"
  /\ last.update_raised
  /\ last.load_fault \in {"positions", "close"}
  /\ engines[last.instance].live

\* C22 (as claimed): after a construction whose load raised, the engine's
\* in-memory component efficacy is the default seed, with no value of the
\* partially completed load in it.
C22_Claim ==
  (last.op = "construct" /\ last.update_raised) =>
    engines[last.instance].component_efficacy = DefaultComponentEfficacy

\* C26 (as claimed): a generate_asp_facts call returns the facts of the
\* engine's current in-memory values, never a string memoized before a
\* change made by update_efficacy or load_efficacy_from_db.
C26_Claim ==
  last.op = "solve" =>
    last.facts = generate_asp_facts(engines[last.instance].component_efficacy,
                                    last.target_tasks, last.target_behaviors,
                                    last.target_model, last.domain)

\* every statement of a facts string
Range(f) == {f[i] : i \in DOMAIN f}

StatementsOf(facts) ==
  Range(facts.target_task) \cup Range(facts.target_behavior) \cup
  facts.component_efficacy \cup facts.position_effect \cup facts.weight \cup
  Range(facts.target_model) \cup facts.model_specific_efficacy \cup
  Range(facts.target_domain) \cup facts.domain_efficacy

\* the names of the model that are ASP constants as written (a lower-case
\* letter followed by letters, digits and underscores); "gpt-4" is not one
AspConstants ==
  ComponentType \cup TaskType \cup BehaviorType \cup
  {"position", "claude", "llama", "mistral", "legal", "medical", "code", "finance"}

\* a term that is a valid constant or an integer
ValidTerm(term) ==
  \/ term.kind = "int"
  \/ term.kind = "name" /\ term.text \in AspConstants

\* a separate period-terminated statement with valid arguments
WellFormedFact(statement) ==
  /\ statement.last_char = "."
  /\ \A a \in DOMAIN statement.args : ValidTerm(statement.args[a])

\* C28 (as claimed): the facts solve hands to the engine are well formed:
\* every generated fact is a period-terminated statement whose arguments
\* are valid constants or integers, for every efficacy snapshot and request.
C28_Claim ==
  last.op = "solve" =>
    \A statement \in StatementsOf(last.facts) : WellFormedFact(statement)

\* C30: generate_asp_facts emits target_model and model_specific_efficacy
\* facts only for a model that is a key of model_adjustments, and
\* target_domain and domain_efficacy facts only for a domain that is a key
\* of domain_adjustments; for a key it emits one fact per entry of that
\* table and no other; an unknown name is not an error.
C30_AdjustmentFactsOnlyForKnownNames ==
  last.op = "facts" =>
    /\ IF last.target_model \in DOMAIN model_adjustments
       THEN /\ last.facts.target_model =
                 <<Statement("target_model", <<AspName(last.target_model)>>)>>
            /\ \A k \in DOMAIN model_adjustments[last.target_model] :
                 Statement("model_specific_efficacy",
                           <<AspName(last.target_model), AspName(k[1]), AspName(k[2]),
                             AspFloat(model_adjustments[last.target_model][k])>>)
                   \in last.facts.model_specific_efficacy
            /\ Cardinality(last.facts.model_specific_efficacy) =
                 Cardinality(DOMAIN model_adjustments[last.target_model])
       ELSE /\ last.facts.target_model = << >>
            /\ last.facts.model_specific_efficacy = {}
    /\ IF last.domain \in DOMAIN domain_adjustments
       THEN /\ last.facts.target_domain =
                 <<Statement("target_domain", <<AspName(last.domain)>>)>>
            /\ \A k \in DOMAIN domain_adjustments[last.domain] :
                 Statement("domain_efficacy",
                           <<AspName(last.domain), AspName(k[1]), AspName(k[2]),
                             AspFloat(domain_adjustments[last.domain][k])>>)
                   \in last.facts.domain_efficacy
            /\ Cardinality(last.facts.domain_efficacy) =
                 Cardinality(DOMAIN domain_adjustments[last.domain])
       ELSE /\ last.facts.target_domain = << >>
            /\ last.facts.domain_efficacy = {}

\* facts for a model that is no key and a domain that is one, on changed
\* efficacy values
C30_Witness ==
  /\ last.op = "facts"
  /\ last.target_model = "mistral"
  /\ last.domain = "legal"
  /\ last.snapshot # DefaultComponentEfficacy
  /\ last.facts.target_model = << >>
  /\ last.facts.domain_efficacy # {}

Orders(n) == {p \in [1..n -> 1..n] : \A i, j \in 1..n : p[i] = p[j] => i = j}

\* C25: assemble_prompt returns the contents of the given components in
\* ascending position order with one blank-line separator between
\* neighbours, whatever the order of the given list, and the given list is
\* the same list after the call.
C25_AssembleJoinsByPosition ==
  last.op = "assemble" =>
    LET given == last.given
        n == Len(given)
        text == last.result.full_prompt
    IN  /\ last.solved.components = given
        /\ Len(text) = IF n = 0 THEN 0 ELSE 2 * n - 1
        /\ \A i \in 1..(n - 1) : text[2 * i].kind = "\n\n"
        /\ \E p \in Orders(n) :
             /\ \A i \in 1..n : text[2 * i - 1] = given[p[i]].content
             /\ \A i, j \in 1..n :
                  i < j => given[p[i]].position <= given[p[j]].position

\* a list given in descending position order
C25_Witness ==
  /\ last.op = "assemble"
  /\ Len(last.given) = 3
  /\ last.given[1].position = 3
  /\ last.given[2].position = 2
  /\ last.given[3].position = 1
  /\ last.result.full_prompt[1] = last.given[3].content
  /\ last.result.full_prompt[5] = last.given[1].content
  /\ last.given[1].content # last.given[3].content

\* C23: optimize resolves target tasks, target behaviors and domain each on
\* its own: the caller's value when it is supplied and not empty, the
\* analyzer's value otherwise; the cache key is built from the resolved
\* values and the same values are the arguments of the solve call.
C23_FieldsResolvedIndependently ==
  last.op = "optimize" =>
    LET tasks == IF Len(last.request.target_tasks) > 0
                 THEN last.request.target_tasks
                 ELSE last.analysis.detected_tasks
        behaviors == IF Len(last.request.target_behaviors) > 0
                     THEN last.request.target_behaviors
                     ELSE last.analysis.detected_behaviors
        domain == IF last.request.domain \in {None, ""}
                  THEN last.analysis.domain_hint
                  ELSE last.request.domain
    IN  /\ last.target_tasks = tasks
        /\ last.target_behaviors = behaviors
        /\ last.domain = domain
        /\ last.key = generate_cache_key(tasks, behaviors,
                                         last.request.target_model, domain)

\* a call that supplies the tasks only: behaviors and domain come from the
\* analyzer, and the solver is called
C23_Witness ==
  /\ last.op = "optimize"
  /\ last.path = "miss"
  /\ last.request.target_tasks = <<"induction">>
  /\ last.request.target_behaviors = << >>
  /\ last.request.domain = ""
  /\ last.analysis.domain_hint = "medical"
  /\ last.target_tasks = <<"induction">>
  /\ last.target_behaviors = <<"precision", "step_by_step">>
  /\ last.domain = "medical"

\* C24: in every result of optimize that is not the fallback result, on a
\* hit as on a miss and under every interleaving of the threads, each
\* component's content is the generator's output for the user prompt of
\* that call and the type of that component: never the solver's
\* placeholder, never content generated for another request.
C24_ContentIsOfThisCall ==
  \A t \in Threads :
    (threads[t].pc = "done" /\ threads[t].result.rationale.kind = "rationale") =>
      /\ Len(threads[t].result.components) = 5
      /\ \A i \in 1..Len(threads[t].result.components) :
           LET component == threads[t].result.components[i]
           IN  /\ component.content.kind = "generated"
               /\ component.content.type = component.type
               /\ component.content.prompt = threads[t].user_prompt

\* two calls with the same key and different prompts have both returned a
\* result: one stored the structure, the other was served from the cache
C24_Witness ==
  /\ \A t \in Threads :
       /\ threads[t].pc = "done"
       /\ threads[t].result.rationale.kind = "rationale"
       /\ threads[t].key = threads["t1"].key
  /\ threads["t1"].user_prompt # threads["t2"].user_prompt
  /\ threads["t1"].stored
  /\ ~threads["t2"].stored
  /\ threads["t1"].result.components[1].content.prompt = threads["t1"].user_prompt
  /\ threads["t2"].result.components[1].content.prompt = threads["t2"].user_prompt

\* C27 (as claimed): once a provide_feedback call has returned true, the
\* cache holds no entry whose solve read the efficacy values from before
\* that feedback, also when an optimize call that missed the cache was in
\* flight during the feedback and stores its result afterwards.
C27_Claim ==
  \A t \in Threads : ~(threads[t].stored /\ threads[t].stale)

\* how often a name occurs in a list
Occurrences(names, n) == Cardinality({i \in DOMAIN names : names[i] = n})

\* one list is a permutation of the other
Permuted(s, t) ==
  /\ Len(s) = Len(t)
  /\ \A n \in TaskType \cup BehaviorType : Occurrences(s, n) = Occurrences(t, n)

\* C31: the cache key does not depend on the order of the lists: argument
\* tuples whose tasks and whose behaviors are permutations of each other,
\* with the same model and domain, get the same key; an absent domain gets
\* the key of the sentinel "none".
C31_KeyIgnoresOrder ==
  last.op = "key" =>
    LET a == last.given[1]
        b == last.given[2]
        permuted == /\ Permuted(a.target_tasks, b.target_tasks)
                    /\ Permuted(a.target_behaviors, b.target_behaviors)
                    /\ a.target_model = b.target_model
    IN  /\ (permuted /\ a.domain = b.domain) => last.keys[1] = last.keys[2]
        /\ (permuted /\ a.domain = None /\ b.domain = "none") =>
             last.keys[1] = last.keys[2]

\* two different orders of two tasks and of two behaviors, one key
C31_Witness ==
  /\ last.op = "key"
  /\ last.given[1].target_tasks = <<"deduction", "comparison">>
  /\ last.given[2].target_tasks = <<"comparison", "deduction">>
  /\ last.given[1].target_behaviors = <<"step_by_step", "precision">>
  /\ last.given[2].target_behaviors = <<"precision", "step_by_step">>
  /\ last.given[1].target_model = last.given[2].target_model
  /\ last.given[1].domain = None
  /\ last.given[2].domain = None
  /\ last.keys[1] = last.keys[2]

\* C32 (as claimed): the key is injective on normalized requests: two
\* argument tuples get the same key only if they have the same sorted task
\* names, the same sorted behavior names, the same target model and the
\* same domain, an absent domain being different from every domain string.
C32_Claim ==
  (last.op = "key" /\ last.keys[1] = last.keys[2]) =>
    LET a == last.given[1]
        b == last.given[2]
    IN  /\ Permuted(a.target_tasks, b.target_tasks)
        /\ Permuted(a.target_behaviors, b.target_behaviors)
        /\ a.target_model = b.target_model
        /\ a.domain = b.domain

\* the keys of the cache in insertion order
KeyOrder(cache) == [i \in 1..Len(cache) |-> cache[i].key]

C34_Claim ==
  \A t \in Threads :
    (threads[t].pc = "done" /\ threads[t].components # << >>) =>
      threads[t].result.rationale.kind = "rationale"


StoredKeys(db) ==
  {<<db[r].component_type,
     IF db[r].task_type # None THEN db[r].task_type ELSE db[r].behavior_type>> :
     r \in 1..Len(db)}

\* C36: feedback survives a restart: after successful sequential
\* update_efficacy calls, an engine constructed over the same durable store
\* holds, for every key that was updated (task key or behavior key), the
\* value held by the engine that performed the updates.
C36_RestartKeepsFeedback ==
  (last.op = "construct" /\ last.instance = "b") =>
    /\ ~last.update_raised
    /\ \A k \in StoredKeys(efficacy_db) :
         /\ k \in DOMAIN engines["b"].component_efficacy
         /\ engines["b"].component_efficacy[k] = engines["a"].component_efficacy[k]
    /\ engines["b"].component_efficacy = engines["a"].component_efficacy

\* the restart after a task key with a default and a behavior key without
\* one were updated: the new engine holds 10 and 0
C36_Witness ==
  /\ last.op = "construct"
  /\ last.instance = "b"
  /\ StoredKeys(efficacy_db) = {<<"example", "deduction">>, <<"context", "creativity">>}
  /\ engines["a"].component_efficacy[<<"example", "deduction">>] = 10
  /\ engines["b"].component_efficacy[<<"example", "deduction">>] = 10
  /\ engines["b"].component_efficacy[<<"context", "creativity">>] = 0
  /\ DefaultComponentEfficacy[<<"example", "deduction">>] # 10
  /\ <<"context", "creativity">> \notin DOMAIN DefaultComponentEfficacy


\* C37 (as claimed): _save_to_db is all-or-nothing: after it returns, either
\* the prompt record and one component record per component are committed
\* and the new id is returned, or nothing of the call is persisted and None
\* is returned; the session is closed in both cases.
C37_Claim ==
  [][(last'.op = "save" /\ ~last'.raised) =>
       /\ last'.saved.closed
       /\ IF last'.saved.has_id
          THEN /\ Len(history') = Len(history) + 1
               /\ SubSeq(history', 1, Len(history)) = history
               /\ history'[Len(history')].id = last'.saved.prompt_id
               /\ Len(history'[Len(history')].components) = Len(last'.given)
               /\ \A i \in 1..Len(last'.given) :
                    /\ history'[Len(history')].components[i].component_type
                         = last'.given[i].type
                    /\ history'[Len(history')].components[i].content
                         = last'.given[i].content
                    /\ history'[Len(history')].components[i].position
                         = last'.given[i].position
          ELSE history' = history]_vars


\* C38 (as claimed): each optimize call writes at most one history record,
\* and only after content, assembly and rationale are complete: exactly one,
\* carrying the generated content of every component, when the call returns
\* a non-fallback result and storage works, and none when it returns the
\* 50.0 fallback result.
C38_Claim ==
  [][last'.op = "optimize" =>
       /\ Len(history') \in {Len(history), Len(history) + 1}
       /\ SubSeq(history', 1, Len(history)) = history
       /\ (~last'.fallback /\ ~last'.save_failed) =>
            /\ Len(history') = Len(history) + 1
            /\ history'[Len(history')].optimized_prompt = last'.result.full_prompt
            /\ history'[Len(history')].rationale = last'.result.rationale
            /\ Len(history'[Len(history')].components) = Len(last'.result.components)
            /\ \A i \in 1..Len(last'.result.components) :
                 /\ history'[Len(history')].components[i].content
                      = last'.result.components[i].content
                 /\ history'[Len(history')].components[i].content.kind = "generated"
       /\ last'.fallback => history' = history]_vars


\* the value of a key of the body is present and is not a member's value
UnknownValue(feedback, key, members) ==
  /\ key \in DOMAIN feedback
  /\ ~(feedback[key].kind = "string" /\ feedback[key].value \in members)

\* C39 (as claimed): the feedback endpoint passes only validated enum values
\* to the core: a request with missing fields, with neither task_type nor
\* behavior_type, or with an unknown component / task / behavior value is
\* answered 400 without provide_feedback being called; a provide_feedback
\* result of false is answered 500; only a result of true is answered with
\* status success.
C39_Claim ==
  last.op = "post_feedback" =>
    /\ ( \/ "component_type" \notin DOMAIN last.given
         \/ "effectiveness" \notin DOMAIN last.given
         \/ ("task_type" \notin DOMAIN last.given
             /\ "behavior_type" \notin DOMAIN last.given)
         \/ UnknownValue(last.given, "component_type", ComponentType)
         \/ UnknownValue(last.given, "task_type", TaskType)
         \/ UnknownValue(last.given, "behavior_type", BehaviorType) )
       => (last.response.status_code = 400 /\ ~last.response.called)
    /\ last.response.called =>
         /\ last.feedback[1] \in ComponentType
         /\ last.feedback[2] \in TaskType \cup BehaviorType
    /\ (last.response.called /\ ~last.returned) => last.response.status_code = 500
    /\ (last.response.status = "success")
         <=> (last.response.called /\ last.returned)

====
